---- MODULE Spec2Model ----
(***************************************************************************)
(* The Tockloader serial protocol codec of src/src/lib.rs: the two lazy    *)
(* byte encoders (CommandEncoder, ResponseEncoder) and the two incremental *)
(* byte-at-a-time decoders (CommandDecoder, ResponseDecoder).              *)
(*                                                                         *)
(* Representation choices.                                                 *)
(*  - A byte is an integer 0..255.  A u16 is an integer 0..65535.          *)
(*  - TLC's integers are 32 bit signed, so a u32 is held as its two 16 bit *)
(*    halves [hi, lo] (value = hi * 65536 + lo); the shifts and casts of   *)
(*    the code are computed on the halves.                                 *)
(*  - A slice is a sequence of bytes (1-based); buffer slot i of the code  *)
(*    is position i + 1.                                                   *)
(*  - The decoders' buffer: [u8; 520] starts zeroed and is only written at *)
(*    index count, so it always is <written prefix> followed by zeros.     *)
(*    The variables cd_buffer / rd_buffer hold the written prefix; Slot    *)
(*    reads the zeros behind it.                                           *)
(***************************************************************************)
EXTENDS Integers, Sequences, FiniteSets, TLC

VARIABLES
    harness,          \* which caller drives the codec in this behaviour
    script,           \* the calls a scripted caller makes on a decoder, in order
    pc,               \* how many calls of the script were made
    overflow_checks,  \* build flavour: TRUE = arithmetic overflow panics (debug)
    command,          \* CommandEncoder.command: the Command being encoded
    ce_state,         \* "none" | "ready" | "rejected" | "panicked": life of the CommandEncoder
    ce_count,         \* CommandEncoder.count
    ce_sent_escape,   \* CommandEncoder.sent_escape
    ce_ret,           \* what the last CommandEncoder::next returned
    ce_last,          \* count and sent_escape before the last CommandEncoder::next
    ce_out,           \* every byte CommandEncoder::next has returned, in order
    ce_nones,         \* how many times CommandEncoder::next has returned None
    cd_state,         \* CommandDecoder.state
    cd_buffer,        \* CommandDecoder.buffer (written prefix)
    cd_count,         \* CommandDecoder.count
    cd_ret,           \* what the last CommandDecoder::receive returned
    cd_last,          \* the byte of the last call, if a receive, and the CommandDecoder's fields before it
    cd_calls,         \* how many times CommandDecoder::receive was called
    cd_yields,        \* how many of these calls returned something else than Ok(None)
    response,         \* ResponseEncoder.response: the Response being encoded
    re_state,         \* "none" | "ready" | "rejected": life of the ResponseEncoder
    re_count,         \* ResponseEncoder.count
    re_sent_escape,   \* ResponseEncoder.sent_escape
    re_ret,           \* what the last ResponseEncoder::next returned
    re_last,          \* count and sent_escape before the last ResponseEncoder::next
    re_out,           \* every byte ResponseEncoder::next has returned, in order
    re_nones,         \* how many times ResponseEncoder::next has returned None
    rd_state,         \* ResponseDecoder.state
    rd_buffer,        \* ResponseDecoder.buffer (written prefix)
    rd_count,         \* ResponseDecoder.count
    rd_needed,        \* ResponseDecoder.needed: <<>> is None, <<n>> is Some(n)
    rd_ret,           \* what the last ResponseDecoder::receive returned
    rd_last,          \* the byte of the last call, if a receive, and the ResponseDecoder's fields before it
    rd_calls,         \* how many times ResponseDecoder::receive was called
    rd_yields,        \* how many of these calls returned something else than Ok(None)
    rd_armret,        \* what the last ResponseDecoder::set_payload_len returned
    rd_armlast,       \* the argument of the last call, if a set_payload_len, and the ResponseDecoder's fields before it
    rd_pending,       \* a set_payload_len returned Ok and no receive has returned Ok(Some(_)) since
    wire              \* the byte in flight from an encoder to a decoder: <<>> or <<b>>

ce_vars == <<command, ce_state, ce_count, ce_sent_escape, ce_ret, ce_last, ce_out, ce_nones>>
cd_vars == <<cd_state, cd_buffer, cd_count, cd_ret, cd_last, cd_calls, cd_yields>>
re_vars == <<response, re_state, re_count, re_sent_escape, re_ret, re_last, re_out, re_nones>>
rd_vars ==
    <<rd_state, rd_buffer, rd_count, rd_needed, rd_ret, rd_last, rd_calls, rd_yields,
      rd_armret, rd_armlast, rd_pending>>
vars == <<harness, script, pc, overflow_checks, ce_vars, cd_vars, re_vars, rd_vars, wire>>

----------------------------------------------------------------------------
(* Wire constants *)

ESCAPE_CHAR == 252

CMD_PING == 1
CMD_INFO == 3
CMD_ID == 4
CMD_RESET == 5
CMD_EPAGE == 6
CMD_WPAGE == 7
CMD_XEBLOCK == 8
CMD_XWPAGE == 9
CMD_CRCRX == 16
CMD_RRANGE == 17
CMD_XRRANGE == 18
CMD_SATTR == 19
CMD_GATTR == 20
CMD_CRCIF == 21
CMD_CRCEF == 22
CMD_XEPAGE == 23
CMD_XFINIT == 24
CMD_CLKOUT == 25
CMD_WUSER == 32
CMD_CHANGE_BAUD == 33

RES_OVERFLOW == 16
RES_PONG == 17
RES_BADADDR == 18
RES_INTERROR == 19
RES_BADARGS == 20
RES_OK == 21
RES_UNKNOWN == 22
RES_XFTIMEOUT == 23
RES_XFEPE == 24
RES_CRCRX == 25
RES_RRANGE == 32
RES_XRRANGE == 33
RES_GATTR == 34
RES_CRCIF == 35
RES_CRCXF == 36
RES_INFO == 37
RES_CHANGE_BAUD_FAIL == 38

MAX_INDEX == 16
KEY_LEN == 8
MAX_ATTR_LEN == 55
INT_PAGE_SIZE == 512
EXT_PAGE_SIZE == 256
MAX_INFO_LEN == 192

\* buffer: [u8; 520], the capacity of both decoders' scratch buffer
BUFFER_LEN == 520

\* The largest usize the model holds.  usize::MAX of the target is beyond TLC's
\* integers; a wrapped subtraction only has to land above every index the code
\* compares it with.
USIZE_MAX == 2147483647

----------------------------------------------------------------------------
(* Integers of fixed width *)

\* a u32 from its halves
U32(hi, lo) == [hi |-> hi, lo |-> lo]

\* (value >> (8 * idx)) as u8, of a u32
U32Byte(value, idx) ==
    CASE idx = 0 -> value.lo % 256
      [] idx = 1 -> value.lo \div 256
      [] idx = 2 -> value.hi % 256
      [] idx = 3 -> value.hi \div 256

\* (value >> (8 * idx)) as u8, of a u16
U16Byte(value, idx) ==
    CASE idx = 0 -> value % 256
      [] idx = 1 -> value \div 256

\* usize subtraction a - b when it overflows in a build without overflow checks
WrappingSub(a, b) ==
    IF a >= b THEN a - b ELSE USIZE_MAX - (b - a) + 1

\* Option<u8>
NoByte == [some |-> FALSE, byte |-> 0]
SomeByte(b) == [some |-> TRUE, byte |-> b]

\* The (usize, Option<u8>) a render_* method returns, with the sent_escape it
\* leaves behind and whether it panicked.
Rendered(inc, out, esc) == [inc |-> inc, out |-> out, esc |-> esc, panic |-> FALSE]
Panicked(esc) == [inc |-> 0, out |-> NoByte, esc |-> esc, panic |-> TRUE]

----------------------------------------------------------------------------
(* CommandEncoder *)

\* new as it would be if it turned away the index MAX_INDEX too
CommandEncoder_new_rejects_at(cmd) ==
    CASE cmd.tag = "WritePage" -> Len(cmd.data) # INT_PAGE_SIZE
      [] cmd.tag = "WriteExPage" -> Len(cmd.data) # EXT_PAGE_SIZE
      [] cmd.tag = "SetAttr" ->
            \/ cmd.index >= MAX_INDEX
            \/ Len(cmd.key) # KEY_LEN
            \/ Len(cmd.value) > MAX_ATTR_LEN
      [] OTHER -> FALSE

\* The commands CommandEncoder::new turns away (the negation of its Ok path).
CommandEncoder_new_rejects(cmd) ==
    CASE cmd.tag = "WritePage" -> Len(cmd.data) # INT_PAGE_SIZE
      [] cmd.tag = "WriteExPage" -> Len(cmd.data) # EXT_PAGE_SIZE
      [] cmd.tag = "SetAttr" ->
            \/ cmd.index > MAX_INDEX
            \/ Len(cmd.key) # KEY_LEN
            \/ Len(cmd.value) > MAX_ATTR_LEN
      [] OTHER -> FALSE

\* render_byte as it would be if the first copy of a sentinel already advanced
\* the position
CommandEncoder_render_byte_advancing(esc, byte) ==
    IF byte = ESCAPE_CHAR
    THEN Rendered(1, SomeByte(ESCAPE_CHAR), ~esc)
    ELSE Rendered(1, SomeByte(byte), FALSE)

CommandEncoder_render_byte(esc, byte) ==
    IF byte = ESCAPE_CHAR
    THEN IF esc
         THEN Rendered(1, SomeByte(ESCAPE_CHAR), FALSE)
         ELSE Rendered(0, SomeByte(ESCAPE_CHAR), TRUE)
    ELSE Rendered(1, SomeByte(byte), FALSE)

CommandEncoder_render_u16(esc, idx, value) ==
    IF idx \in 0..1
    THEN CommandEncoder_render_byte(esc, U16Byte(value, idx))
    ELSE Rendered(0, NoByte, esc)

CommandEncoder_render_u32(esc, idx, value) ==
    IF idx \in 0..3
    THEN CommandEncoder_render_byte(esc, U32Byte(value, idx))
    ELSE Rendered(0, NoByte, esc)

CommandEncoder_render_buffer(esc, idx, page_size, data) ==
    IF idx < Len(data) /\ idx < page_size
    THEN CommandEncoder_render_byte(esc, data[idx + 1])
    ELSE IF idx < page_size
         THEN CommandEncoder_render_byte(esc, 255)
         ELSE Rendered(0, NoByte, esc)

\* render_basic_cmd as it would be if the position moved on past the trailer
CommandEncoder_render_basic_cmd_counting(esc, count, cmd) ==
    CASE count = 0 -> Rendered(1, SomeByte(ESCAPE_CHAR), esc)
      [] count = 1 -> Rendered(1, SomeByte(cmd), esc)
      [] OTHER -> Rendered(1, NoByte, esc)

CommandEncoder_render_basic_cmd(esc, count, cmd) ==
    CASE count = 0 -> Rendered(1, SomeByte(ESCAPE_CHAR), esc)
      [] count = 1 -> Rendered(1, SomeByte(cmd), esc)
      [] OTHER -> Rendered(0, NoByte, esc)

\* render_erasepage_cmd, render_eraseexblock, render_eraseexpage: a u32 address
\* and the trailer of opcode cmd
CommandEncoder_render_address_cmd(esc, count, address, cmd) ==
    IF count \in 0..3
    THEN CommandEncoder_render_u32(esc, count, address)
    ELSE CommandEncoder_render_basic_cmd(esc, count - 4, cmd)

\* render_writepage_cmd (page_size 512) and render_writeexpage (page_size 256)
CommandEncoder_render_page_cmd(esc, count, address, data, page_size, cmd) ==
    CASE count \in 0..3 -> CommandEncoder_render_u32(esc, count, address)
      [] count \in 4..(page_size + 3) ->
            CommandEncoder_render_buffer(esc, count - 4, page_size, data)
      [] OTHER -> CommandEncoder_render_basic_cmd(esc, count - (page_size + 4), cmd)

\* render_readrange and render_exreadrange
CommandEncoder_render_range_cmd(esc, count, address, length, cmd) ==
    CASE count \in 0..3 -> CommandEncoder_render_u32(esc, count, address)
      [] count \in 4..5 -> CommandEncoder_render_u16(esc, count - 4, length)
      [] OTHER -> CommandEncoder_render_basic_cmd(esc, count - 6, cmd)

CommandEncoder_render_setattr(esc, count, index, key, value) ==
    LET max_len == IF Len(value) > MAX_ATTR_LEN THEN MAX_ATTR_LEN ELSE Len(value)
    IN  CASE count = 0 -> CommandEncoder_render_byte(esc, index)
          [] count \in 1..9 -> CommandEncoder_render_buffer(esc, count - 1, KEY_LEN, key)
          [] count = 10 -> CommandEncoder_render_byte(esc, max_len)
          [] count > 10 /\ max_len > 0 /\ count < max_len + 11 ->
                CommandEncoder_render_buffer(esc, count - 11, max_len, value)
          [] OTHER -> CommandEncoder_render_basic_cmd(esc, count - (11 + max_len), CMD_SATTR)

CommandEncoder_render_getattr(esc, count, index) ==
    IF count = 0
    THEN CommandEncoder_render_byte(esc, index)
    ELSE CommandEncoder_render_basic_cmd(esc, count - 1, CMD_GATTR)

\* render_crcintflash, render_crcextflash and render_writeflashuserpages: two
\* u32 and the trailer of opcode cmd
CommandEncoder_render_two_u32_cmd(esc, count, first, second, cmd) ==
    CASE count \in 0..3 -> CommandEncoder_render_u32(esc, count, first)
      [] count \in 4..7 -> CommandEncoder_render_u32(esc, count - 4, second)
      [] OTHER -> CommandEncoder_render_basic_cmd(esc, count - 8, cmd)

\* render_changebaud.  Its last arm computes count - 8 from count >= 4: below 8
\* the subtraction overflows, which panics in a build with overflow checks and
\* wraps in one without.
CommandEncoder_render_changebaud(esc, count, baudmode, baud, checks) ==
    CASE count = 0 ->
            CommandEncoder_render_byte(esc, IF baudmode = "Set" THEN 1 ELSE 2)
      [] count \in 1..3 -> CommandEncoder_render_u32(esc, count - 1, baud)
      [] OTHER ->
            IF count < 8 /\ checks
            THEN Panicked(esc)
            ELSE CommandEncoder_render_basic_cmd(esc, WrappingSub(count, 8), CMD_WUSER)

\* The match of CommandEncoder::next: what the command renders at position count.
CommandEncoder_render(cmd, count, esc, checks) ==
    CASE cmd.tag = "Ping" -> CommandEncoder_render_basic_cmd(esc, count, CMD_PING)
      [] cmd.tag = "Info" -> CommandEncoder_render_basic_cmd(esc, count, CMD_INFO)
      [] cmd.tag = "Id" -> CommandEncoder_render_basic_cmd(esc, count, CMD_ID)
      [] cmd.tag = "Reset" -> CommandEncoder_render_basic_cmd(esc, count, CMD_RESET)
      [] cmd.tag = "ErasePage" ->
            CommandEncoder_render_address_cmd(esc, count, cmd.address, CMD_EPAGE)
      [] cmd.tag = "WritePage" ->
            CommandEncoder_render_page_cmd(esc, count, cmd.address, cmd.data, INT_PAGE_SIZE, CMD_WPAGE)
      [] cmd.tag = "EraseExBlock" ->
            CommandEncoder_render_address_cmd(esc, count, cmd.address, CMD_XEBLOCK)
      [] cmd.tag = "WriteExPage" ->
            CommandEncoder_render_page_cmd(esc, count, cmd.address, cmd.data, EXT_PAGE_SIZE, CMD_XWPAGE)
      [] cmd.tag = "CrcRxBuffer" -> CommandEncoder_render_basic_cmd(esc, count, CMD_CRCRX)
      [] cmd.tag = "ReadRange" ->
            CommandEncoder_render_range_cmd(esc, count, cmd.address, cmd.length, CMD_RRANGE)
      [] cmd.tag = "ExReadRange" ->
            CommandEncoder_render_range_cmd(esc, count, cmd.address, cmd.length, CMD_XRRANGE)
      [] cmd.tag = "SetAttr" ->
            CommandEncoder_render_setattr(esc, count, cmd.index, cmd.key, cmd.value)
      [] cmd.tag = "GetAttr" -> CommandEncoder_render_getattr(esc, count, cmd.index)
      [] cmd.tag = "CrcIntFlash" ->
            CommandEncoder_render_two_u32_cmd(esc, count, cmd.address, cmd.length32, CMD_CRCIF)
      [] cmd.tag = "CrcExtFlash" ->
            CommandEncoder_render_two_u32_cmd(esc, count, cmd.address, cmd.length32, CMD_CRCEF)
      [] cmd.tag = "EraseExPage" ->
            CommandEncoder_render_address_cmd(esc, count, cmd.address, CMD_XEPAGE)
      [] cmd.tag = "ExtFlashInit" -> CommandEncoder_render_basic_cmd(esc, count, CMD_XFINIT)
      [] cmd.tag = "ClockOut" -> CommandEncoder_render_basic_cmd(esc, count, CMD_CLKOUT)
      [] cmd.tag = "WriteFlashUserPages" ->
            CommandEncoder_render_two_u32_cmd(esc, count, cmd.page1, cmd.page2, CMD_WUSER)
      [] cmd.tag = "ChangeBaud" ->
            CommandEncoder_render_changebaud(esc, count, cmd.mode, cmd.baud, checks)

\* CommandEncoder::new(&command)
CommandEncoder_new ==
    /\ ce_state = "none"
    /\ ce_state' = IF CommandEncoder_new_rejects(command) THEN "rejected" ELSE "ready"
    /\ ce_count' = 0
    /\ ce_sent_escape' = FALSE
    /\ UNCHANGED <<command, ce_ret, ce_last, ce_out, ce_nones>>

\* CommandEncoder::next()
CommandEncoder_next ==
    LET r == CommandEncoder_render(command, ce_count, ce_sent_escape, overflow_checks)
    IN  /\ ce_state = "ready"
        /\ ce_state' = IF r.panic THEN "panicked" ELSE "ready"
        /\ ce_count' = ce_count + r.inc
        /\ ce_sent_escape' = r.esc
        /\ ce_ret' = r.out
        /\ ce_last' = [count |-> ce_count, sent_escape |-> ce_sent_escape]
        /\ ce_out' = IF r.out.some THEN Append(ce_out, r.out.byte) ELSE ce_out
        /\ ce_nones' = IF r.out.some \/ r.panic THEN ce_nones ELSE ce_nones + 1
        /\ UNCHANGED command

----------------------------------------------------------------------------
(* The decoders' buffer and results *)

\* self.buffer[i]
Slot(buffer, i) == IF i < Len(buffer) THEN buffer[i + 1] ELSE 0

\* &self.buffer[from..to]
Slice(buffer, from, to) == [k \in 1..(to - from) |-> Slot(buffer, from + k - 1)]

\* self.buffer[i] = ch, for i <= the length of the written prefix
Store(buffer, i, ch) ==
    IF i < Len(buffer) THEN [buffer EXCEPT ![i + 1] = ch] ELSE Append(buffer, ch)

\* read_u16 as it would be if it read the high byte first
read_u16_be(buffer, i) == 256 * Slot(buffer, i) + Slot(buffer, i + 1)

\* LittleEndian::read_u16(&buffer[i..i + 2])
read_u16(buffer, i) == Slot(buffer, i) + 256 * Slot(buffer, i + 1)

\* LittleEndian::read_u32(&buffer[i..i + 4])
read_u32(buffer, i) == U32(read_u16(buffer, i + 2), read_u16(buffer, i))

\* Option<usize>
None == <<>>
Some(n) == <<n>>

\* Result<Option<_>, Error>
OkNone == [kind |-> "None"]
OkSome(v) == [kind |-> "Some", val |-> v]
Err(e) == [kind |-> "Err", err |-> e]

\* cd_last / rd_last when the last call on the decoder was no receive, and
\* ce_last / re_last before the first next
NoCall == [ch |-> 0, state |-> "-", buffer |-> <<>>, count |-> 0, needed |-> None]
NoNext == [count |-> 0, sent_escape |-> FALSE]

\* rd_armlast when the last call on the ResponseDecoder was no set_payload_len
NoArm ==
    [length |-> 0, state |-> "-", buffer |-> <<>>, count |-> 0, needed |-> None,
     pending |-> FALSE]

----------------------------------------------------------------------------
(* CommandDecoder *)

\* CommandDecoder::load_char: the buffer and count it leaves
CommandDecoder_load_char(buffer, count, ch) ==
    IF count < BUFFER_LEN
    THEN [buffer |-> Store(buffer, count, ch), count |-> count + 1]
    ELSE [buffer |-> buffer, count |-> count]

\* such an arm as it would be if more bytes than expected were accepted
CommandDecoder_exact_atleast(count, num_expected_bytes, cmd) ==
    IF count >= num_expected_bytes THEN OkSome(cmd) ELSE Err("BadArguments")

\* An arm of handle_escape that wants exactly num_expected_bytes buffered
CommandDecoder_exact(count, num_expected_bytes, cmd) ==
    IF count = num_expected_bytes THEN OkSome(cmd) ELSE Err("BadArguments")

\* the CMD_SATTR arm as it would be if a count of 10 + length were enough
CommandDecoder_setattr_exact(buffer, count) ==
    IF count >= 10
    THEN LET length == Slot(buffer, 9)
         IN  IF count >= 10 + length
             THEN OkSome([tag |-> "SetAttr", index |-> Slot(buffer, 0),
                          key |-> Slice(buffer, 1, 9),
                          value |-> Slice(buffer, 10, 10 + length)])
             ELSE Err("BadArguments")
    ELSE Err("BadArguments")

\* The CMD_SATTR arm of CommandDecoder::handle_escape
CommandDecoder_setattr(buffer, count) ==
    IF count >= 10
    THEN LET length == Slot(buffer, 9)
         IN  IF count > 10 + length
             THEN OkSome([tag |-> "SetAttr", index |-> Slot(buffer, 0),
                          key |-> Slice(buffer, 1, 9),
                          value |-> Slice(buffer, 10, 10 + length)])
             ELSE Err("BadArguments")
    ELSE Err("BadArguments")

\* The match of CommandDecoder::handle_escape for a byte other than ESCAPE_CHAR
CommandDecoder_match(ch, buffer, count) ==
    CASE ch = CMD_PING -> OkSome([tag |-> "Ping"])
      [] ch = CMD_INFO -> OkSome([tag |-> "Info"])
      [] ch = CMD_ID -> OkSome([tag |-> "Id"])
      [] ch = CMD_RESET -> OkSome([tag |-> "Reset"])
      [] ch = CMD_EPAGE ->
            CommandDecoder_exact(count, 4,
                [tag |-> "ErasePage", address |-> read_u32(buffer, 0)])
      [] ch = CMD_WPAGE ->
            CommandDecoder_exact(count, INT_PAGE_SIZE + 4,
                [tag |-> "WritePage", address |-> read_u32(buffer, 0),
                 data |-> Slice(buffer, 4, INT_PAGE_SIZE + 4)])
      [] ch = CMD_XEBLOCK ->
            CommandDecoder_exact(count, 4,
                [tag |-> "EraseExBlock", address |-> read_u32(buffer, 0)])
      [] ch = CMD_XWPAGE ->
            CommandDecoder_exact(count, EXT_PAGE_SIZE + 4,
                [tag |-> "WriteExPage", address |-> read_u32(buffer, 0),
                 data |-> Slice(buffer, 4, EXT_PAGE_SIZE + 4)])
      [] ch = CMD_CRCRX -> OkSome([tag |-> "CrcRxBuffer"])
      [] ch = CMD_RRANGE ->
            CommandDecoder_exact(count, 6,
                [tag |-> "ReadRange", address |-> read_u32(buffer, 0),
                 length |-> read_u16(buffer, 4)])
      [] ch = CMD_XRRANGE ->
            CommandDecoder_exact(count, 6,
                [tag |-> "ExReadRange", address |-> read_u32(buffer, 0),
                 length |-> read_u16(buffer, 4)])
      [] ch = CMD_SATTR -> CommandDecoder_setattr(buffer, count)
      [] ch = CMD_GATTR ->
            CommandDecoder_exact(count, 1, [tag |-> "GetAttr", index |-> Slot(buffer, 0)])
      [] ch = CMD_CRCIF ->
            CommandDecoder_exact(count, 8,
                [tag |-> "CrcIntFlash", address |-> read_u32(buffer, 0),
                 length32 |-> read_u32(buffer, 4)])
      [] ch = CMD_CRCEF ->
            CommandDecoder_exact(count, 8,
                [tag |-> "CrcExtFlash", address |-> read_u32(buffer, 0),
                 length32 |-> read_u32(buffer, 4)])
      [] ch = CMD_XEPAGE ->
            CommandDecoder_exact(count, 4,
                [tag |-> "EraseExPage", address |-> read_u32(buffer, 0)])
      [] ch = CMD_XFINIT -> OkSome([tag |-> "ExtFlashInit"])
      [] ch = CMD_CLKOUT -> OkSome([tag |-> "ClockOut"])
      [] ch = CMD_WUSER ->
            CommandDecoder_exact(count, 8,
                [tag |-> "WriteFlashUserPages", page1 |-> read_u32(buffer, 0),
                 page2 |-> read_u32(buffer, 4)])
      [] ch = CMD_CHANGE_BAUD ->
            IF count = 5
            THEN CASE Slot(buffer, 0) = 1 ->
                        OkSome([tag |-> "ChangeBaud", mode |-> "Set", baud |-> read_u32(buffer, 1)])
                   [] Slot(buffer, 0) = 2 ->
                        OkSome([tag |-> "ChangeBaud", mode |-> "Verify", baud |-> read_u32(buffer, 1)])
                   [] OTHER -> Err("BadArguments")
            ELSE Err("BadArguments")
      [] OTHER -> OkNone

\* handle_loading as it would be if it stored the sentinel like any other byte
CommandDecoder_handle_loading_storing(ch, buffer, count) ==
    LET l == CommandDecoder_load_char(buffer, count, ch)
    IN  [state |-> IF ch = ESCAPE_CHAR THEN "Escape" ELSE "Loading",
         buffer |-> l.buffer, count |-> l.count, ret |-> OkNone]

\* CommandDecoder::handle_loading: the fields and the result it leaves
CommandDecoder_handle_loading(ch, buffer, count) ==
    IF ch = ESCAPE_CHAR
    THEN [state |-> "Escape", buffer |-> buffer, count |-> count, ret |-> OkNone]
    ELSE LET l == CommandDecoder_load_char(buffer, count, ch)
         IN  [state |-> "Loading", buffer |-> l.buffer, count |-> l.count, ret |-> OkNone]

\* handle_escape as it would be if only a command, not an error, cleared the count
CommandDecoder_handle_escape_keeping(ch, buffer, count) ==
    IF ch = ESCAPE_CHAR
    THEN LET l == CommandDecoder_load_char(buffer, count, ch)
         IN  [state |-> "Loading", buffer |-> l.buffer, count |-> l.count, ret |-> OkNone]
    ELSE LET result == CommandDecoder_match(ch, buffer, count)
         IN  [state |-> "Loading", buffer |-> buffer,
              count |-> IF result.kind = "Some" THEN 0 ELSE count,
              ret |-> result]

\* handle_escape as it would be if a byte that is no opcode were an error, as in
\* the other direction's documentation
CommandDecoder_handle_escape_strict(ch, buffer, count) ==
    IF ch = ESCAPE_CHAR
    THEN LET l == CommandDecoder_load_char(buffer, count, ch)
         IN  [state |-> "Loading", buffer |-> l.buffer, count |-> l.count, ret |-> OkNone]
    ELSE LET result == CommandDecoder_match(ch, buffer, count)
         IN  [state |-> "Loading", buffer |-> buffer,
              count |-> IF result.kind \in {"Some", "Err"} THEN 0 ELSE count,
              ret |-> IF result.kind = "None" THEN Err("UnknownCommand") ELSE result]

\* handle_escape as it would be if a marker behind a full buffer were an error
CommandDecoder_handle_escape_full(ch, buffer, count) ==
    IF ch = ESCAPE_CHAR
    THEN LET l == CommandDecoder_load_char(buffer, count, ch)
         IN  [state |-> "Loading", buffer |-> l.buffer, count |-> l.count, ret |-> OkNone]
    ELSE LET result == IF count = BUFFER_LEN
                       THEN Err("BadArguments")
                       ELSE CommandDecoder_match(ch, buffer, count)
         IN  [state |-> "Loading", buffer |-> buffer,
              count |-> IF result.kind \in {"Some", "Err"} THEN 0 ELSE count,
              ret |-> result]

\* handle_escape as it would be if an error left the decoder in state Escape
CommandDecoder_handle_escape_stuck(ch, buffer, count) ==
    IF ch = ESCAPE_CHAR
    THEN LET l == CommandDecoder_load_char(buffer, count, ch)
         IN  [state |-> "Loading", buffer |-> l.buffer, count |-> l.count, ret |-> OkNone]
    ELSE LET result == CommandDecoder_match(ch, buffer, count)
         IN  [state |-> IF result.kind = "Err" THEN "Escape" ELSE "Loading",
              buffer |-> buffer,
              count |-> IF result.kind \in {"Some", "Err"} THEN 0 ELSE count,
              ret |-> result]

\* CommandDecoder::handle_escape: the fields and the result it leaves
CommandDecoder_handle_escape(ch, buffer, count) ==
    IF ch = ESCAPE_CHAR
    THEN LET l == CommandDecoder_load_char(buffer, count, ch)
         IN  [state |-> "Loading", buffer |-> l.buffer, count |-> l.count, ret |-> OkNone]
    ELSE LET result == CommandDecoder_match(ch, buffer, count)
         IN  [state |-> "Loading", buffer |-> buffer,
              count |-> IF result.kind \in {"Some", "Err"} THEN 0 ELSE count,
              ret |-> result]

\* One past the highest buffer index a CommandDecoder::receive call touches (0 if
\* none): the slot load_char writes, or the end of the farthest slice the arm of
\* the opcode takes.  An index past BUFFER_LEN is a panic in the code.
CommandDecoder_reach(ch, state, buffer, count) ==
    LET loaded == IF count < BUFFER_LEN THEN count + 1 ELSE 0
        exact(n) == IF count = n THEN n ELSE 0
    IN  IF state = "Loading"
        THEN IF ch = ESCAPE_CHAR THEN 0 ELSE loaded
        ELSE CASE ch = ESCAPE_CHAR -> loaded
               [] ch \in {CMD_EPAGE, CMD_XEBLOCK, CMD_XEPAGE} -> exact(4)
               [] ch = CMD_WPAGE -> exact(INT_PAGE_SIZE + 4)
               [] ch = CMD_XWPAGE -> exact(EXT_PAGE_SIZE + 4)
               [] ch \in {CMD_RRANGE, CMD_XRRANGE} -> exact(6)
               [] ch = CMD_SATTR ->
                    IF count >= 10
                    THEN IF count > 10 + Slot(buffer, 9) THEN 10 + Slot(buffer, 9) ELSE 10
                    ELSE 0
               [] ch = CMD_GATTR -> exact(1)
               [] ch \in {CMD_CRCIF, CMD_CRCEF, CMD_WUSER} -> exact(8)
               [] ch = CMD_CHANGE_BAUD -> exact(5)
               [] OTHER -> 0

\* CommandDecoder::receive(ch)
CommandDecoder_receive(ch) ==
    LET r == IF cd_state = "Loading"
             THEN CommandDecoder_handle_loading(ch, cd_buffer, cd_count)
             ELSE CommandDecoder_handle_escape(ch, cd_buffer, cd_count)
    IN  /\ cd_state' = r.state
        /\ cd_buffer' = r.buffer
        /\ cd_count' = r.count
        /\ cd_ret' = r.ret
        /\ cd_last' = [ch |-> ch, state |-> cd_state, buffer |-> cd_buffer,
                       count |-> cd_count, needed |-> None]
        /\ cd_calls' = cd_calls + 1
        /\ cd_yields' = IF r.ret.kind = "None" THEN cd_yields ELSE cd_yields + 1

\* reset as it would be if it returned the decoder to state Loading
CommandDecoder_reset_loading ==
    /\ cd_count' = 0
    /\ cd_state' = "Loading"
    /\ cd_last' = NoCall
    /\ UNCHANGED <<cd_buffer, cd_ret, cd_calls, cd_yields>>

\* CommandDecoder::reset()
CommandDecoder_reset ==
    /\ cd_count' = 0
    /\ cd_last' = NoCall
    /\ UNCHANGED <<cd_state, cd_buffer, cd_ret, cd_calls, cd_yields>>

----------------------------------------------------------------------------
(* ResponseEncoder *)

\* new as it would be if it turned away an info of MAX_INFO_LEN bytes too
ResponseEncoder_new_rejects_at(rsp) ==
    CASE rsp.tag = "GetAttr" -> Len(rsp.key) # KEY_LEN \/ Len(rsp.value) > MAX_ATTR_LEN
      [] rsp.tag = "Info" -> Len(rsp.info) >= MAX_INFO_LEN
      [] OTHER -> FALSE

\* The responses ResponseEncoder::new turns away (the negation of its Ok path).
ResponseEncoder_new_rejects(rsp) ==
    CASE rsp.tag = "GetAttr" -> Len(rsp.key) # KEY_LEN \/ Len(rsp.value) > MAX_ATTR_LEN
      [] rsp.tag = "Info" -> Len(rsp.info) > MAX_INFO_LEN
      [] OTHER -> FALSE

ResponseEncoder_render_byte(esc, byte) ==
    IF byte = ESCAPE_CHAR
    THEN IF esc
         THEN Rendered(1, SomeByte(ESCAPE_CHAR), FALSE)
         ELSE Rendered(0, SomeByte(ESCAPE_CHAR), TRUE)
    ELSE Rendered(1, SomeByte(byte), esc)

ResponseEncoder_render_u16(esc, idx, value) ==
    IF idx \in 0..1
    THEN ResponseEncoder_render_byte(esc, U16Byte(value, idx))
    ELSE Rendered(0, NoByte, esc)

ResponseEncoder_render_u32(esc, idx, value) ==
    IF idx \in 0..3
    THEN ResponseEncoder_render_byte(esc, U32Byte(value, idx))
    ELSE Rendered(0, NoByte, esc)

\* render_buffer as it would be if short data were padded with zeros
ResponseEncoder_render_buffer_zero(esc, idx, page_size, data) ==
    IF idx < Len(data) /\ idx < page_size
    THEN ResponseEncoder_render_byte(esc, data[idx + 1])
    ELSE IF idx < page_size
         THEN ResponseEncoder_render_byte(esc, 0)
         ELSE Rendered(0, NoByte, esc)

ResponseEncoder_render_buffer(esc, idx, page_size, data) ==
    IF idx < Len(data) /\ idx < page_size
    THEN ResponseEncoder_render_byte(esc, data[idx + 1])
    ELSE IF idx < page_size
         THEN ResponseEncoder_render_byte(esc, 255)
         ELSE Rendered(0, NoByte, esc)

ResponseEncoder_render_header(esc, count, cmd) ==
    CASE count = 0 -> Rendered(1, SomeByte(ESCAPE_CHAR), esc)
      [] count = 1 -> Rendered(1, SomeByte(cmd), esc)
      [] OTHER -> Rendered(0, NoByte, esc)

ResponseEncoder_render_crc_rx_buffer(esc, count, length, crc) ==
    CASE count \in 0..1 -> ResponseEncoder_render_header(esc, count, RES_CRCRX)
      [] count \in 2..3 -> ResponseEncoder_render_u16(esc, count - 2, length)
      [] count \in 4..7 -> ResponseEncoder_render_u32(esc, count - 4, crc)
      [] OTHER -> Rendered(0, NoByte, esc)

\* render_read_range and render_ex_read_range (whose guards x < data.len() + 2
\* and x - 2 < data.len() agree from x = 2 on)
ResponseEncoder_render_read_range(esc, count, data, cmd) ==
    CASE count \in 0..1 -> ResponseEncoder_render_header(esc, count, cmd)
      [] count > 1 /\ count < Len(data) + 2 ->
            ResponseEncoder_render_byte(esc, data[(count - 2) + 1])
      [] OTHER -> Rendered(0, NoByte, esc)

ResponseEncoder_render_get_attr(esc, count, key, value) ==
    CASE count \in 0..1 -> ResponseEncoder_render_header(esc, count, RES_GATTR)
      [] count \in 2..9 -> ResponseEncoder_render_buffer(esc, count - 2, 8, key)
      [] count = 10 -> ResponseEncoder_render_byte(esc, Len(value) % 256)
      [] OTHER -> ResponseEncoder_render_buffer(esc, count - 11, MAX_ATTR_LEN, value)

\* render_crc_int_flash and render_crc_ex_flash
ResponseEncoder_render_crc_flash(esc, count, crc, cmd) ==
    IF count \in 0..1
    THEN ResponseEncoder_render_header(esc, count, cmd)
    ELSE ResponseEncoder_render_u32(esc, count - 2, crc)

ResponseEncoder_render_info(esc, count, info) ==
    IF count \in 0..1
    THEN ResponseEncoder_render_header(esc, count, RES_INFO)
    ELSE ResponseEncoder_render_buffer(esc, count - 2, Len(info), info)

\* The match of ResponseEncoder::next: what the response renders at position count.
ResponseEncoder_render(rsp, count, esc) ==
    CASE rsp.tag = "Overflow" -> ResponseEncoder_render_header(esc, count, RES_OVERFLOW)
      [] rsp.tag = "Pong" -> ResponseEncoder_render_header(esc, count, RES_PONG)
      [] rsp.tag = "BadAddress" -> ResponseEncoder_render_header(esc, count, RES_BADADDR)
      [] rsp.tag = "InternalError" -> ResponseEncoder_render_header(esc, count, RES_INTERROR)
      [] rsp.tag = "BadArguments" -> ResponseEncoder_render_header(esc, count, RES_BADARGS)
      [] rsp.tag = "Ok" -> ResponseEncoder_render_header(esc, count, RES_OK)
      [] rsp.tag = "Unknown" -> ResponseEncoder_render_header(esc, count, RES_UNKNOWN)
      [] rsp.tag = "ExtFlashTimeout" -> ResponseEncoder_render_header(esc, count, RES_XFTIMEOUT)
      [] rsp.tag = "ExtFlashPageError" -> ResponseEncoder_render_header(esc, count, RES_XFEPE)
      [] rsp.tag = "CrcRxBuffer" ->
            ResponseEncoder_render_crc_rx_buffer(esc, count, rsp.length, rsp.crc)
      [] rsp.tag = "ReadRange" ->
            ResponseEncoder_render_read_range(esc, count, rsp.data, RES_RRANGE)
      [] rsp.tag = "ExReadRange" ->
            ResponseEncoder_render_read_range(esc, count, rsp.data, RES_XRRANGE)
      [] rsp.tag = "GetAttr" -> ResponseEncoder_render_get_attr(esc, count, rsp.key, rsp.value)
      [] rsp.tag = "CrcIntFlash" -> ResponseEncoder_render_crc_flash(esc, count, rsp.crc, RES_CRCIF)
      [] rsp.tag = "CrcExtFlash" -> ResponseEncoder_render_crc_flash(esc, count, rsp.crc, RES_CRCXF)
      [] rsp.tag = "Info" -> ResponseEncoder_render_info(esc, count, rsp.info)
      [] rsp.tag = "ChangeBaudFail" ->
            ResponseEncoder_render_header(esc, count, RES_CHANGE_BAUD_FAIL)

\* ResponseEncoder::new(&response)
ResponseEncoder_new ==
    /\ re_state = "none"
    /\ re_state' = IF ResponseEncoder_new_rejects(response) THEN "rejected" ELSE "ready"
    /\ re_count' = 0
    /\ re_sent_escape' = FALSE
    /\ UNCHANGED <<response, re_ret, re_last, re_out, re_nones>>

\* ResponseEncoder::next()
ResponseEncoder_next ==
    LET r == ResponseEncoder_render(response, re_count, re_sent_escape)
    IN  /\ re_state = "ready"
        /\ re_count' = re_count + r.inc
        /\ re_sent_escape' = r.esc
        /\ re_ret' = r.out
        /\ re_last' = [count |-> re_count, sent_escape |-> re_sent_escape]
        /\ re_out' = IF r.out.some THEN Append(re_out, r.out.byte) ELSE re_out
        /\ re_nones' = IF r.out.some THEN re_nones ELSE re_nones + 1
        /\ UNCHANGED <<response, re_state>>

----------------------------------------------------------------------------
(* ResponseDecoder *)

\* The match on self.buffer[0] of ResponseDecoder::load_char, taken once the
\* armed total is reached
ResponseDecoder_reassemble(buffer, count) ==
    LET op == Slot(buffer, 0)
    IN  CASE op = RES_CRCRX ->
                OkSome([tag |-> "CrcRxBuffer", length |-> read_u16(buffer, 1),
                        crc |-> read_u32(buffer, 3)])
          [] op = RES_RRANGE -> OkSome([tag |-> "ReadRange", data |-> Slice(buffer, 1, count)])
          [] op = RES_XRRANGE -> OkSome([tag |-> "ExReadRange", data |-> Slice(buffer, 1, count)])
          [] op = RES_GATTR ->
                LET length == Slot(buffer, 9)
                IN  IF 9 + length <= count
                    THEN OkSome([tag |-> "GetAttr", key |-> Slice(buffer, 1, 9),
                                 value |-> Slice(buffer, 10, 10 + length)])
                    ELSE Err("BadArguments")
          [] op = RES_CRCIF -> OkSome([tag |-> "CrcIntFlash", crc |-> read_u32(buffer, 1)])
          [] op = RES_CRCXF -> OkSome([tag |-> "CrcExtFlash", crc |-> read_u32(buffer, 1)])
          [] op = RES_INFO -> OkSome([tag |-> "Info", info |-> Slice(buffer, 1, count)])
          [] OTHER -> Err("UnknownCommand")

\* load_char as it would be if a completed response left the length armed
ResponseDecoder_load_char_armed(ch, buffer, count, needed) ==
    LET b == IF count < BUFFER_LEN THEN Store(buffer, count, ch) ELSE buffer
        c == IF count < BUFFER_LEN THEN count + 1 ELSE count
    IN  IF needed = Some(c)
        THEN [buffer |-> b, count |-> 0, needed |-> needed,
              ret |-> ResponseDecoder_reassemble(b, c)]
        ELSE [buffer |-> b, count |-> c, needed |-> needed, ret |-> OkNone]

\* load_char as it would be if it compared the armed total with the count
\* before the byte is stored
ResponseDecoder_load_char_early(ch, buffer, count, needed) ==
    LET b == IF count < BUFFER_LEN THEN Store(buffer, count, ch) ELSE buffer
        c == IF count < BUFFER_LEN THEN count + 1 ELSE count
    IN  IF needed = Some(count)
        THEN [buffer |-> b, count |-> 0, needed |-> None,
              ret |-> IF Slot(b, 0) \in {RES_RRANGE, RES_XRRANGE}
                      THEN OkSome([tag |-> IF Slot(b, 0) = RES_RRANGE
                                           THEN "ReadRange" ELSE "ExReadRange",
                                   data |-> Slice(b, 1, count)])
                      ELSE Err("UnknownCommand")]
        ELSE [buffer |-> b, count |-> c, needed |-> needed, ret |-> OkNone]

\* ResponseDecoder::load_char: the buffer, count and needed it leaves and the
\* result it returns
ResponseDecoder_load_char(ch, buffer, count, needed) ==
    LET b == IF count < BUFFER_LEN THEN Store(buffer, count, ch) ELSE buffer
        c == IF count < BUFFER_LEN THEN count + 1 ELSE count
    IN  IF needed = Some(c)
        THEN [buffer |-> b, count |-> 0, needed |-> None,
              ret |-> ResponseDecoder_reassemble(b, c)]
        ELSE [buffer |-> b, count |-> c, needed |-> needed, ret |-> OkNone]

\* self.load_char(ch)?; Ok(None): an Err of load_char is returned, anything
\* else it returns is dropped
ResponseDecoder_load_marker(ch, buffer, count, needed) ==
    LET l == ResponseDecoder_load_char(ch, buffer, count, needed)
    IN  [l EXCEPT !.ret = IF l.ret.kind = "Err" THEN l.ret ELSE OkNone]

\* the arming arms as they would be if they armed one byte more
ResponseDecoder_arm_marker_late(ch, buffer, count, needed, length) ==
    IF needed # None
    THEN [buffer |-> buffer, count |-> count, needed |-> needed, ret |-> Err("SetLength")]
    ELSE [buffer |-> IF count < BUFFER_LEN THEN Store(buffer, count, ch) ELSE buffer,
          count |-> IF count < BUFFER_LEN THEN count + 1 ELSE count,
          needed |-> Some(length + 2), ret |-> OkNone]

\* self.set_payload_len(length)?; self.load_char(ch)?; Ok(None)
ResponseDecoder_arm_marker(ch, buffer, count, needed, length) ==
    IF needed # None
    THEN [buffer |-> buffer, count |-> count, needed |-> needed, ret |-> Err("SetLength")]
    ELSE ResponseDecoder_load_marker(ch, buffer, count, Some(length + 1))

\* the RES_RRANGE / RES_XRRANGE arms as they would be without the is_none check
ResponseDecoder_range_marker_unchecked(ch, buffer, count, needed) ==
    ResponseDecoder_load_marker(ch, buffer, count, needed)

\* The RES_RRANGE and RES_XRRANGE arms of ResponseDecoder::handle_escape
ResponseDecoder_range_marker(ch, buffer, count, needed) ==
    IF needed = None
    THEN [buffer |-> buffer, count |-> count, needed |-> needed, ret |-> Err("UnsetLength")]
    ELSE ResponseDecoder_load_marker(ch, buffer, count, needed)

\* The arms of ResponseDecoder::handle_escape that complete on the marker
ResponseDecoder_terminal(ch) ==
    CASE ch = RES_PONG -> "Pong"
      [] ch = RES_OVERFLOW -> "Overflow"
      [] ch = RES_BADADDR -> "BadAddress"
      [] ch = RES_INTERROR -> "InternalError"
      [] ch = RES_BADARGS -> "BadArguments"
      [] ch = RES_OK -> "Ok"
      [] ch = RES_UNKNOWN -> "Unknown"
      [] ch = RES_XFTIMEOUT -> "ExtFlashTimeout"
      [] ch = RES_XFEPE -> "ExtFlashPageError"
      [] ch = RES_CHANGE_BAUD_FAIL -> "ChangeBaudFail"
      [] OTHER -> "none"

\* handle_escape as it would be if a self-terminating response left the armed
\* length in place
ResponseDecoder_handle_escape_armed(ch, buffer, count, needed) ==
    CASE ch = ESCAPE_CHAR -> ResponseDecoder_load_char(ch, buffer, count, needed)
      [] ResponseDecoder_terminal(ch) # "none" ->
            [buffer |-> buffer, count |-> 0, needed |-> needed,
             ret |-> OkSome([tag |-> ResponseDecoder_terminal(ch)])]
      [] ch = RES_CRCRX -> ResponseDecoder_arm_marker(ch, buffer, count, needed, 6)
      [] ch \in {RES_RRANGE, RES_XRRANGE} ->
            ResponseDecoder_range_marker(ch, buffer, count, needed)
      [] ch = RES_GATTR -> ResponseDecoder_arm_marker(ch, buffer, count, needed, 1 + 8 + 55)
      [] ch \in {RES_CRCIF, RES_CRCXF} -> ResponseDecoder_arm_marker(ch, buffer, count, needed, 4)
      [] ch = RES_INFO -> ResponseDecoder_arm_marker(ch, buffer, count, needed, 8)
      [] OTHER -> [buffer |-> buffer, count |-> count, needed |-> needed, ret |-> OkNone]

\* ResponseDecoder::handle_escape (the state it leaves is Loading in every arm)
ResponseDecoder_handle_escape(ch, buffer, count, needed) ==
    CASE ch = ESCAPE_CHAR -> ResponseDecoder_load_char(ch, buffer, count, needed)
      [] ResponseDecoder_terminal(ch) # "none" ->
            [buffer |-> buffer, count |-> 0, needed |-> None,
             ret |-> OkSome([tag |-> ResponseDecoder_terminal(ch)])]
      [] ch = RES_CRCRX -> ResponseDecoder_arm_marker(ch, buffer, count, needed, 6)
      [] ch \in {RES_RRANGE, RES_XRRANGE} ->
            ResponseDecoder_range_marker(ch, buffer, count, needed)
      [] ch = RES_GATTR -> ResponseDecoder_arm_marker(ch, buffer, count, needed, 1 + 8 + 55)
      [] ch \in {RES_CRCIF, RES_CRCXF} -> ResponseDecoder_arm_marker(ch, buffer, count, needed, 4)
      [] ch = RES_INFO -> ResponseDecoder_arm_marker(ch, buffer, count, needed, 8)
      [] OTHER -> [buffer |-> buffer, count |-> count, needed |-> needed, ret |-> OkNone]

\* ResponseDecoder::handle_loading: the state it leaves, with the rest
ResponseDecoder_handle_loading(ch, buffer, count, needed) ==
    IF ch = ESCAPE_CHAR
    THEN [state |-> "Escape", buffer |-> buffer, count |-> count, needed |-> needed,
          ret |-> OkNone]
    ELSE LET l == ResponseDecoder_load_char(ch, buffer, count, needed)
         IN  [state |-> "Loading", buffer |-> l.buffer, count |-> l.count,
              needed |-> l.needed, ret |-> l.ret]

\* One past the highest buffer index a ResponseDecoder::receive call touches (0
\* if none): the slot load_char writes and, at the armed total, the end of the
\* farthest slice the match on buffer[0] takes.
ResponseDecoder_reach(ch, state, buffer, count, needed) ==
    LET b == IF count < BUFFER_LEN THEN Store(buffer, count, ch) ELSE buffer
        c == IF count < BUFFER_LEN THEN count + 1 ELSE count
        op == Slot(b, 0)
        matched == CASE op = RES_CRCRX -> 7
                     [] op \in {RES_RRANGE, RES_XRRANGE, RES_INFO} -> c
                     [] op = RES_GATTR ->
                            IF 9 + Slot(b, 9) <= c THEN 10 + Slot(b, 9) ELSE 10
                     [] op \in {RES_CRCIF, RES_CRCXF} -> 5
                     [] OTHER -> 1
        loaded(n) == IF n = Some(c)
                     THEN (IF matched > c THEN matched ELSE c)
                     ELSE (IF count < BUFFER_LEN THEN c ELSE 0)
    IN  IF state = "Loading"
        THEN IF ch = ESCAPE_CHAR THEN 0 ELSE loaded(needed)
        ELSE CASE ch = ESCAPE_CHAR -> loaded(needed)
               [] ch \in {RES_RRANGE, RES_XRRANGE} ->
                    IF needed = None THEN 0 ELSE loaded(needed)
               [] ch = RES_CRCRX -> IF needed = None THEN loaded(Some(7)) ELSE 0
               [] ch = RES_GATTR -> IF needed = None THEN loaded(Some(65)) ELSE 0
               [] ch \in {RES_CRCIF, RES_CRCXF} -> IF needed = None THEN loaded(Some(5)) ELSE 0
               [] ch = RES_INFO -> IF needed = None THEN loaded(Some(9)) ELSE 0
               [] OTHER -> 0

\* ResponseDecoder::receive(ch)
ResponseDecoder_receive(ch) ==
    LET r == IF rd_state = "Loading"
             THEN ResponseDecoder_handle_loading(ch, rd_buffer, rd_count, rd_needed)
             ELSE LET e == ResponseDecoder_handle_escape(ch, rd_buffer, rd_count, rd_needed)
                  IN  [state |-> "Loading", buffer |-> e.buffer, count |-> e.count,
                       needed |-> e.needed, ret |-> e.ret]
    IN  /\ rd_state' = r.state
        /\ rd_buffer' = r.buffer
        /\ rd_count' = r.count
        /\ rd_needed' = r.needed
        /\ rd_ret' = r.ret
        /\ rd_last' = [ch |-> ch, state |-> rd_state, buffer |-> rd_buffer,
                       count |-> rd_count, needed |-> rd_needed]
        /\ rd_calls' = rd_calls + 1
        /\ rd_yields' = IF r.ret.kind = "None" THEN rd_yields ELSE rd_yields + 1
        /\ rd_armlast' = NoArm
        /\ rd_pending' = (rd_pending /\ r.ret.kind # "Some")
        /\ UNCHANGED rd_armret

\* set_payload_len as it would be if it armed again over an armed length
ResponseDecoder_set_payload_len_rearming(length) ==
    /\ rd_needed' = Some(length + 1)
    /\ rd_armret' = IF rd_needed = None THEN "Ok" ELSE "SetLength"
    /\ rd_last' = NoCall
    /\ rd_armlast' = [length |-> length, state |-> rd_state, buffer |-> rd_buffer,
                      count |-> rd_count, needed |-> rd_needed, pending |-> rd_pending]
    /\ rd_pending' = (rd_pending \/ rd_needed = None)
    /\ UNCHANGED <<rd_state, rd_buffer, rd_count, rd_ret, rd_calls, rd_yields>>

\* ResponseDecoder::set_payload_len(length)
ResponseDecoder_set_payload_len(length) ==
    /\ rd_needed' = IF rd_needed = None THEN Some(length + 1) ELSE rd_needed
    /\ rd_armret' = IF rd_needed = None THEN "Ok" ELSE "SetLength"
    /\ rd_last' = NoCall
    /\ rd_armlast' = [length |-> length, state |-> rd_state, buffer |-> rd_buffer,
                      count |-> rd_count, needed |-> rd_needed, pending |-> rd_pending]
    /\ rd_pending' = (rd_pending \/ rd_needed = None)
    /\ UNCHANGED <<rd_state, rd_buffer, rd_count, rd_ret, rd_calls, rd_yields>>

\* ResponseDecoder::reset()
ResponseDecoder_reset ==
    /\ rd_count' = 0
    /\ rd_last' = NoCall
    /\ rd_armlast' = NoArm
    /\ UNCHANGED <<rd_state, rd_buffer, rd_needed, rd_ret, rd_calls, rd_yields, rd_armret,
                   rd_pending>>

----------------------------------------------------------------------------
(* The messages and bytes the callers of the model use *)

\* how many times a caller pulls next() again after it returned None
MaxNones == 2
\* how many bytes the raw-byte caller feeds to a decoder
MaxFeed == 4

\* 0x00000000, 0xDEADBEEF, 0xFCFCFCFC
Words == {U32(0, 0), U32(57005, 48879), U32(64764, 64764)}
\* 0x0000, 0x1234, 0x00FC, 0xFCFC
Halves == {0, 4660, 252, 64764}

Filled(n, b) == [i \in 1..n |-> b]
Ramp(n) == [i \in 1..n |-> (i - 1) % 256]
Edged(n) == [i \in 1..n |-> IF i \in {1, n} THEN ESCAPE_CHAR ELSE 17]

PageData(n) == {Filled(n, 0), Ramp(n), Edged(n)}
Keys == {Ramp(8), Edged(8), Ramp(7), Ramp(9)}
Values == {<<>>, <<170>>, Edged(4), Edged(55), Ramp(56)}
Infos == {<<>>, Ramp(3), Edged(8), Ramp(9), Edged(192), Ramp(193)}
Datas == {<<>>, <<ESCAPE_CHAR>>, <<0, 17, 34, 51>>, Edged(519), Ramp(520)}

Commands ==
    {[tag |-> t] : t \in {"Ping", "Info", "Id", "Reset", "CrcRxBuffer", "ExtFlashInit", "ClockOut"}}
    \cup {[tag |-> t, address |-> a] :
            t \in {"ErasePage", "EraseExBlock", "EraseExPage"}, a \in Words}
    \cup {[tag |-> "WritePage", address |-> a, data |-> d] :
            a \in Words, d \in PageData(INT_PAGE_SIZE)}
    \cup {[tag |-> "WritePage", address |-> U32(0, 0), data |-> d] :
            d \in {Ramp(INT_PAGE_SIZE - 1), Ramp(INT_PAGE_SIZE + 1)}}
    \cup {[tag |-> "WriteExPage", address |-> a, data |-> d] :
            a \in Words, d \in PageData(EXT_PAGE_SIZE)}
    \cup {[tag |-> "WriteExPage", address |-> U32(0, 0), data |-> d] :
            d \in {Ramp(EXT_PAGE_SIZE - 1), Ramp(EXT_PAGE_SIZE + 1)}}
    \cup {[tag |-> t, address |-> a, length |-> l] :
            t \in {"ReadRange", "ExReadRange"}, a \in Words, l \in Halves}
    \cup {[tag |-> "SetAttr", index |-> i, key |-> k, value |-> v] :
            i \in {0, 15, 16, 17, 252}, k \in Keys, v \in Values}
    \cup {[tag |-> "GetAttr", index |-> i] : i \in {0, 16, 252, 255}}
    \cup {[tag |-> t, address |-> a, length32 |-> l] :
            t \in {"CrcIntFlash", "CrcExtFlash"}, a \in Words, l \in Words}
    \cup {[tag |-> "WriteFlashUserPages", page1 |-> a, page2 |-> b] : a \in Words, b \in Words}
    \cup {[tag |-> "ChangeBaud", mode |-> m, baud |-> b] :
            m \in {"Set", "Verify"}, b \in Words \cup {U32(1, 49664)}}

Responses ==
    {[tag |-> t] : t \in {"Overflow", "Pong", "BadAddress", "InternalError", "BadArguments",
                          "Ok", "Unknown", "ExtFlashTimeout", "ExtFlashPageError",
                          "ChangeBaudFail"}}
    \cup {[tag |-> "CrcRxBuffer", length |-> l, crc |-> c] : l \in Halves, c \in Words}
    \cup {[tag |-> t, data |-> d] : t \in {"ReadRange", "ExReadRange"}, d \in Datas}
    \cup {[tag |-> "GetAttr", key |-> k, value |-> v] : k \in Keys, v \in Values}
    \cup {[tag |-> t, crc |-> c] : t \in {"CrcIntFlash", "CrcExtFlash"}, c \in Words}
    \cup {[tag |-> "Info", info |-> i] : i \in Infos}

\* raw bytes fed to a CommandDecoder: data, the sentinel, opcodes of each kind
\* (Ping, ErasePage, GetAttr, ChangeBaud) and two bytes that are no opcode
CommandFeedBytes == {0, ESCAPE_CHAR, CMD_PING, CMD_EPAGE, CMD_GATTR, CMD_CHANGE_BAUD, 2, 153}
\* raw bytes fed to a ResponseDecoder: data, the sentinel, opcodes of each kind
\* (Pong, ReadRange, ExReadRange, CrcIntFlash) and a byte that is no opcode
ResponseFeedBytes == {0, ESCAPE_CHAR, RES_PONG, RES_RRANGE, RES_XRRANGE, RES_CRCIF, 153}
\* the lengths the raw-byte caller arms
FeedLengths == {0, 1, 2}

\* the placeholder of a message slot that a behaviour does not use
NoMessage == [tag |-> "-"]

\* the placeholder of the script in a behaviour whose caller follows none
NoScript == [kind |-> "-", steps |-> <<>>, mark |-> 0, opcode |-> 0, payload |-> <<>>]

----------------------------------------------------------------------------
(* Construction *)

\* CommandDecoder::new(), ResponseDecoder::new() and no encoder yet
Fresh ==
    /\ ce_state = "none" /\ ce_count = 0 /\ ce_sent_escape = FALSE
    /\ ce_ret = NoByte /\ ce_last = NoNext /\ ce_out = <<>> /\ ce_nones = 0
    /\ cd_state = "Loading" /\ cd_buffer = <<>> /\ cd_count = 0
    /\ cd_ret = OkNone /\ cd_last = NoCall /\ cd_calls = 0 /\ cd_yields = 0
    /\ re_state = "none" /\ re_count = 0 /\ re_sent_escape = FALSE
    /\ re_ret = NoByte /\ re_last = NoNext /\ re_out = <<>> /\ re_nones = 0
    /\ rd_state = "Loading" /\ rd_buffer = <<>> /\ rd_count = 0 /\ rd_needed = None
    /\ rd_ret = OkNone /\ rd_last = NoCall /\ rd_calls = 0 /\ rd_yields = 0
    /\ rd_armret = "-" /\ rd_armlast = NoArm /\ rd_pending = FALSE
    /\ wire = <<>>

\* An encoder of one message feeds a fresh decoder, byte by byte.
Init ==
    /\ harness \in {"command", "response"}
    /\ overflow_checks \in (IF harness = "command" THEN BOOLEAN ELSE {TRUE})
    /\ command \in (IF harness = "command" THEN Commands ELSE {NoMessage})
    /\ response \in (IF harness = "response" THEN Responses ELSE {NoMessage})
    /\ script = NoScript
    /\ pc = 0
    /\ Fresh

\* A caller feeds raw bytes to a fresh decoder.
InitFeed ==
    /\ harness \in {"feed_command", "feed_response"}
    /\ overflow_checks = TRUE
    /\ command = NoMessage
    /\ response = NoMessage
    /\ script = NoScript
    /\ pc = 0
    /\ Fresh

----------------------------------------------------------------------------
(* The callers' steps *)

\* the flash tool builds the encoder of its command
CmdNew ==
    /\ harness = "command"
    /\ CommandEncoder_new
    /\ UNCHANGED <<harness, script, pc, overflow_checks, cd_vars, re_vars, rd_vars, wire>>

\* the flash tool pulls the next byte and puts it on the wire
CmdNext ==
    /\ harness = "command"
    /\ wire = <<>>
    /\ ce_nones < MaxNones
    /\ CommandEncoder_next
    /\ wire' = IF ce_ret'.some THEN <<ce_ret'.byte>> ELSE <<>>
    /\ UNCHANGED <<harness, script, pc, overflow_checks, cd_vars, re_vars, rd_vars>>

\* the bootloader receives the byte on the wire
CmdDeliver ==
    /\ harness = "command"
    /\ wire # <<>>
    /\ CommandDecoder_receive(wire[1])
    /\ wire' = <<>>
    /\ UNCHANGED <<harness, script, pc, overflow_checks, ce_vars, re_vars, rd_vars>>

\* the bootloader builds the encoder of its response
RspNew ==
    /\ harness = "response"
    /\ ResponseEncoder_new
    /\ UNCHANGED <<harness, script, pc, overflow_checks, ce_vars, cd_vars, rd_vars, wire>>

\* the flash tool arms its decoder with the length it asked for, before the
\* first byte of a ReadRange / ExReadRange response arrives
RspArm ==
    /\ harness = "response"
    /\ re_state = "ready"
    /\ response.tag \in {"ReadRange", "ExReadRange"}
    /\ rd_armret = "-"
    /\ ResponseDecoder_set_payload_len(Len(response.data))
    /\ UNCHANGED <<harness, script, pc, overflow_checks, ce_vars, cd_vars, re_vars, wire>>

\* the bootloader pulls the next byte and puts it on the wire
RspNext ==
    /\ harness = "response"
    /\ wire = <<>>
    /\ re_nones < MaxNones
    /\ response.tag \in {"ReadRange", "ExReadRange"} => rd_armret # "-"
    /\ ResponseEncoder_next
    /\ wire' = IF re_ret'.some THEN <<re_ret'.byte>> ELSE <<>>
    /\ UNCHANGED <<harness, script, pc, overflow_checks, ce_vars, cd_vars, rd_vars>>

\* the flash tool receives the byte on the wire
RspDeliver ==
    /\ harness = "response"
    /\ wire # <<>>
    /\ ResponseDecoder_receive(wire[1])
    /\ wire' = <<>>
    /\ UNCHANGED <<harness, script, pc, overflow_checks, ce_vars, cd_vars, re_vars>>

Next == CmdNew \/ CmdNext \/ CmdDeliver \/ RspNew \/ RspArm \/ RspNext \/ RspDeliver

Spec == Init /\ [][Next]_vars

\* a caller feeds one raw byte to the CommandDecoder
FeedCommand ==
    /\ harness = "feed_command"
    /\ cd_calls < MaxFeed
    /\ \E ch \in CommandFeedBytes : CommandDecoder_receive(ch)
    /\ UNCHANGED <<harness, script, pc, overflow_checks, ce_vars, re_vars, rd_vars, wire>>

\* a caller resets the CommandDecoder
ResetCommand ==
    /\ harness = "feed_command"
    /\ CommandDecoder_reset
    /\ UNCHANGED <<harness, script, pc, overflow_checks, ce_vars, re_vars, rd_vars, wire>>

\* a caller feeds one raw byte to the ResponseDecoder
FeedResponse ==
    /\ harness = "feed_response"
    /\ rd_calls < MaxFeed
    /\ \E ch \in ResponseFeedBytes : ResponseDecoder_receive(ch)
    /\ UNCHANGED <<harness, script, pc, overflow_checks, ce_vars, cd_vars, re_vars, wire>>

\* a caller arms the ResponseDecoder
ArmResponse ==
    /\ harness = "feed_response"
    /\ \E length \in FeedLengths : ResponseDecoder_set_payload_len(length)
    /\ UNCHANGED <<harness, script, pc, overflow_checks, ce_vars, cd_vars, re_vars, wire>>

\* a caller resets the ResponseDecoder
ResetResponse ==
    /\ harness = "feed_response"
    /\ ResponseDecoder_reset
    /\ UNCHANGED <<harness, script, pc, overflow_checks, ce_vars, cd_vars, re_vars, wire>>

NextFeed == FeedCommand \/ ResetCommand \/ FeedResponse \/ ArmResponse \/ ResetResponse

SpecFeed == InitFeed /\ [][NextFeed]_vars

----------------------------------------------------------------------------
(* The wire format as documented, to compare the codec with *)

\* s with every sentinel byte doubled (halving s keeps the recursion shallow)
RECURSIVE Stuff(_)
Stuff(s) ==
    CASE Len(s) = 0 -> <<>>
      [] Len(s) = 1 -> IF s[1] = ESCAPE_CHAR THEN <<ESCAPE_CHAR, ESCAPE_CHAR>> ELSE s
      [] OTHER ->
            LET half == Len(s) \div 2
            IN  Stuff(SubSeq(s, 1, half)) \o Stuff(SubSeq(s, half + 1, Len(s)))

LE16(value) == <<value % 256, value \div 256>>
LE32(value) == LE16(value.lo) \o LE16(value.hi)

\* the twenty command opcodes by variant
CommandOpcode(cmd) ==
    CASE cmd.tag = "Ping" -> 1
      [] cmd.tag = "Info" -> 3
      [] cmd.tag = "Id" -> 4
      [] cmd.tag = "Reset" -> 5
      [] cmd.tag = "ErasePage" -> 6
      [] cmd.tag = "WritePage" -> 7
      [] cmd.tag = "EraseExBlock" -> 8
      [] cmd.tag = "WriteExPage" -> 9
      [] cmd.tag = "CrcRxBuffer" -> 16
      [] cmd.tag = "ReadRange" -> 17
      [] cmd.tag = "ExReadRange" -> 18
      [] cmd.tag = "SetAttr" -> 19
      [] cmd.tag = "GetAttr" -> 20
      [] cmd.tag = "CrcIntFlash" -> 21
      [] cmd.tag = "CrcExtFlash" -> 22
      [] cmd.tag = "EraseExPage" -> 23
      [] cmd.tag = "ExtFlashInit" -> 24
      [] cmd.tag = "ClockOut" -> 25
      [] cmd.tag = "WriteFlashUserPages" -> 32
      [] cmd.tag = "ChangeBaud" -> 33

CommandOpcodes == {1, 3, 4, 5, 6, 7, 8, 9, 16, 17, 18, 19, 20, 21, 22, 23, 24, 25, 32, 33}

\* the payload bytes of a command, in field order
CommandFields(cmd) ==
    CASE cmd.tag \in {"ErasePage", "EraseExBlock", "EraseExPage"} -> LE32(cmd.address)
      [] cmd.tag \in {"WritePage", "WriteExPage"} -> LE32(cmd.address) \o cmd.data
      [] cmd.tag \in {"ReadRange", "ExReadRange"} -> LE32(cmd.address) \o LE16(cmd.length)
      [] cmd.tag = "SetAttr" -> <<cmd.index>> \o cmd.key \o <<Len(cmd.value)>> \o cmd.value
      [] cmd.tag = "GetAttr" -> <<cmd.index>>
      [] cmd.tag \in {"CrcIntFlash", "CrcExtFlash"} -> LE32(cmd.address) \o LE32(cmd.length32)
      [] cmd.tag = "WriteFlashUserPages" -> LE32(cmd.page1) \o LE32(cmd.page2)
      [] cmd.tag = "ChangeBaud" -> <<IF cmd.mode = "Set" THEN 1 ELSE 2>> \o LE32(cmd.baud)
      [] OTHER -> <<>>

\* the response opcodes by variant
ResponseOpcode(rsp) ==
    CASE rsp.tag = "Overflow" -> 16
      [] rsp.tag = "Pong" -> 17
      [] rsp.tag = "BadAddress" -> 18
      [] rsp.tag = "InternalError" -> 19
      [] rsp.tag = "BadArguments" -> 20
      [] rsp.tag = "Ok" -> 21
      [] rsp.tag = "Unknown" -> 22
      [] rsp.tag = "ExtFlashTimeout" -> 23
      [] rsp.tag = "ExtFlashPageError" -> 24
      [] rsp.tag = "CrcRxBuffer" -> 25
      [] rsp.tag = "ReadRange" -> 32
      [] rsp.tag = "ExReadRange" -> 33
      [] rsp.tag = "GetAttr" -> 34
      [] rsp.tag = "CrcIntFlash" -> 35
      [] rsp.tag = "CrcExtFlash" -> 36
      [] rsp.tag = "Info" -> 37
      [] rsp.tag = "ChangeBaudFail" -> 38

ResponseOpcodes == (16..25) \cup (32..38)

\* the payload bytes of a response, in field order
ResponseFields(rsp) ==
    CASE rsp.tag = "CrcRxBuffer" -> LE16(rsp.length) \o LE32(rsp.crc)
      [] rsp.tag \in {"ReadRange", "ExReadRange"} -> rsp.data
      [] rsp.tag = "GetAttr" ->
            rsp.key \o <<Len(rsp.value)>> \o rsp.value \o Filled(55 - Len(rsp.value), 255)
      [] rsp.tag \in {"CrcIntFlash", "CrcExtFlash"} -> LE32(rsp.crc)
      [] rsp.tag = "Info" -> rsp.info
      [] OTHER -> <<>>

\* the commands with valid field values
ValidCommand(cmd) ==
    CASE cmd.tag = "WritePage" -> Len(cmd.data) = 512
      [] cmd.tag = "WriteExPage" -> Len(cmd.data) = 256
      [] cmd.tag = "SetAttr" -> cmd.index <= 16 /\ Len(cmd.key) = 8 /\ Len(cmd.value) <= 55
      [] OTHER -> TRUE

\* two messages of the same variant with the same fields
SameMessage(a, b) == a.tag = b.tag /\ a = b

\* the encoder of the command has returned None and the decoder has received
\* every byte it returned before
CommandSent == harness = "command" /\ ce_state = "ready" /\ ce_nones >= 1 /\ wire = <<>>
ResponseSent == harness = "response" /\ re_state = "ready" /\ re_nones >= 1 /\ wire = <<>>

----------------------------------------------------------------------------
(* A caller that follows a script: calls on a fresh decoder, in a fixed order *)

Recv(b) == [op |-> "receive", arg |-> b]
Arm(n) == [op |-> "set_payload_len", arg |-> n]
Receives(bytes) == [i \in 1..Len(bytes) |-> Recv(bytes[i])]

\* a call of reset()
Reset == [op |-> "reset", arg |-> 0]

\* a script: the steps of a prefix, then those of a frame; mark is the number of
\* prefix steps, opcode and payload describe the frame
Script(kind, prefix, frame, opcode, payload) ==
    [kind |-> kind, steps |-> prefix \o frame, mark |-> Len(prefix),
     opcode |-> opcode, payload |-> payload]

\* the ten response opcodes that carry no payload
SelfTerminating == (16..24) \cup {38}

\* what a ResponseDecoder went through before a frame: nothing; armed; bytes
\* buffered; armed with a byte buffered; inside an armed ReadRange; inside an
\* auto-armed CrcIntFlash
ResponseContexts ==
    {<<>>, <<Arm(2)>>, Receives(<<0, 7>>), <<Arm(3), Recv(0)>>,
     <<Arm(2), Recv(252), Recv(32), Recv(5)>>, Receives(<<252, 35, 1>>)}

\* a self-terminating marker in each context, then set_payload_len(1)
TerminalScripts ==
    {Script("terminal", c, Receives(<<252, op>>) \o <<Arm(1)>>, op, <<>>) :
        c \in ResponseContexts, op \in SelfTerminating}

\* byte sequences whose last byte makes CommandDecoder::receive return an error
CommandErrorPrefixes ==
    {<<252, 6>>, <<0, 0, 252, 6>>, <<1, 2, 3, 252, 33>>, <<252, 19>>,
     <<9, 9, 9, 9, 9, 252, 252, 252, 20>>}

\* commands of each payload shape
RecoverCommands ==
    {[tag |-> "Ping"],
     [tag |-> "ErasePage", address |-> U32(57005, 48879)],
     [tag |-> "ReadRange", address |-> U32(64764, 64764), length |-> 252],
     [tag |-> "GetAttr", index |-> 16],
     [tag |-> "SetAttr", index |-> 0, key |-> Ramp(8), value |-> <<170>>],
     [tag |-> "CrcIntFlash", address |-> U32(0, 0), length32 |-> U32(1, 0)],
     [tag |-> "ChangeBaud", mode |-> "Verify", baud |-> U32(1, 49664)],
     [tag |-> "WriteExPage", address |-> U32(0, 0), data |-> Edged(EXT_PAGE_SIZE)]}

\* the frame of a command as documented: stuffed payload, sentinel, opcode
CommandFrame(cmd) == Stuff(CommandFields(cmd)) \o <<252, CommandOpcode(cmd)>>

\* a frame that ends in an error, then the frame of a command
RecoverScripts ==
    {Script("recover", Receives(e), Receives(CommandFrame(c)), CommandOpcode(c),
            CommandFrame(c)) :
        e \in CommandErrorPrefixes, c \in RecoverCommands}

\* what a ResponseDecoder with count 0 and no length armed went through: nothing;
\* a Pong; an error at the armed total; a ReadRange of 70 bytes
IdleContexts ==
    {<<>>, Receives(<<252, 17>>), <<Arm(0), Recv(0)>>,
     <<Arm(70)>> \o Receives(<<252, 32>> \o Filled(70, 170))}

\* the payloads sent behind the marker of a response that arms itself
AutoArmPayloads(op) ==
    CASE op = 25 -> {<<52, 18, 239, 190, 173, 222>>, Filled(6, 252), Filled(6, 0),
                     <<252, 0, 17, 32, 25, 252>>}
      [] op \in {35, 36} -> {<<239, 190, 173, 222>>, Filled(4, 252), <<0, 35, 36, 0>>}
      [] op = 37 -> {Ramp(8), Edged(8), Filled(8, 252)}
      [] op = 34 -> {k \o <<l>> \o v : k \in {Ramp(8), Edged(8)}, l \in {0, 4, 55, 56, 57, 255},
                                      v \in {Ramp(55), Edged(55)}}

\* the marker of a response that arms itself, then its payload, stuffed
AutoArmScripts ==
    {Script("autoarm", c, Receives(<<252, f[1]>> \o Stuff(f[2])), f[1], f[2]) :
        c \in IdleContexts,
        f \in UNION {{<<op, p>> : p \in AutoArmPayloads(op)} : op \in {25, 34, 35, 36, 37}}}

\* set_payload_len(n) on a fresh decoder, then the marker of ReadRange or
\* ExReadRange and n bytes, stuffed
RangeScripts ==
    {Script("range", <<Arm(Len(d))>>, Receives(<<252, op>> \o Stuff(d)), op, d) :
        op \in {32, 33},
        d \in {<<0>>, <<252>>, <<0, 17, 34, 51>>, <<32, 252, 33>>, Edged(519), Ramp(519)}}

\* a SetAttr frame as a sender could put it on the wire: index, key, declared
\* length l, then l + extra bytes, the sentinel and the opcode
SetAttrScripts ==
    {Script("setattr", <<>>,
            Receives(Stuff(<<i>> \o k \o <<l>> \o Filled(l + extra, 170)) \o <<252, 19>>),
            19, <<i>> \o k \o <<l>> \o Filled(l + extra, 170)) :
        i \in {0, 16, 17, 255}, k \in {Ramp(8), Edged(8)}, l \in {0, 1, 55, 56},
        extra \in {0, 1}}

\* the buffered count each opcode with a fixed payload wants
ExactSize(op) ==
    CASE op \in {6, 8, 23} -> 4
      [] op \in {17, 18} -> 6
      [] op \in {21, 22, 32} -> 8
      [] op = 33 -> 5
      [] op = 20 -> 1
      [] op = 7 -> 516
      [] op = 9 -> 260

ExactOpcodes == {6, 7, 8, 9, 17, 18, 20, 21, 22, 23, 32, 33}

\* the opcodes without payload
ZeroArgOpcodes == {1, 3, 4, 5, 16, 24, 25}

\* n bytes, none the sentinel, then the marker of an opcode with a fixed payload:
\* one byte short, exact, one byte long, and no byte at all
ExactScripts ==
    {Script("exact", Receives([i \in 1..n |-> 1 + (i % 7)]), Receives(<<252, op>>), op, <<>>) :
        op \in ExactOpcodes, n \in {0}} \cup
    UNION {{Script("exact", Receives([i \in 1..n |-> 1 + (i % 7)]), Receives(<<252, op>>),
                   op, <<>>) :
                n \in {ExactSize(op) - 1, ExactSize(op), ExactSize(op) + 1}} :
            op \in ExactOpcodes}

\* n bytes, then the marker of an opcode without payload; 521 bytes fill the
\* buffer and one more
ZeroArgScripts ==
    {Script("zeroarg", Receives(Filled(n, 170)), Receives(<<252, op>>), op, <<>>) :
        op \in ZeroArgOpcodes, n \in {0, 1, 519, 520, 521}}

\* a CommandDecoder filled to capacity, then a byte, a doubled sentinel and the
\* marker of SetAttr
FullCommandScripts ==
    {Script("full", Receives(Filled(520, b)), Receives(<<9, 252, 252, 9, 252, 19>>), 19, <<>>) :
        b \in {0, 170, 255}}

\* a ResponseDecoder filled to capacity: unarmed, then a byte and a doubled
\* sentinel; armed with 519 once it is full, then a byte; armed with 600 before a
\* ReadRange of 600 bytes
FullResponseScripts ==
    {Script("full", Receives(Filled(520, 7)), Receives(<<9, 252, 252, 9>>), 0, <<>>),
     Script("full", Receives(<<32>> \o Filled(519, 0)), <<Arm(519), Recv(85)>>, 32, <<>>),
     Script("full", Receives(<<34>> \o Filled(519, 255)), <<Arm(519), Recv(252), Recv(252)>>,
            34, <<>>),
     Script("full", <<Arm(600)>>, Receives(<<252, 32>> \o Filled(600, 1)), 32, <<>>)}

\* a range of 520 bytes and more, armed with its length
LongReadScripts ==
    {Script("long", <<Arm(n)>>, Receives(<<252, op>> \o Stuff(Filled(n, 90))), op, Filled(n, 90)) :
        op \in {32, 33}, n \in {520, 521}}

\* an Info of other than 8 bytes, armed with its length by the caller
ArmedInfoScripts ==
    {Script("armedinfo", <<Arm(Len(p))>>, Receives(<<252, 37>> \o Stuff(p)), 37, p) :
        p \in {<<>>, Ramp(4), Edged(9), Ramp(192)}}

\* what a CommandDecoder received of a message that is then abandoned
AbandonedCommands ==
    {<<1, 2, 3>>, <<252>>, <<7, 252>>, <<252, 252>>, Filled(520, 3)}

\* part of a message, reset(), then the frame of a command
ResetCommandScripts ==
    {Script("reset", Receives(a) \o <<Reset>>, Receives(CommandFrame(c)), CommandOpcode(c),
            CommandFrame(c)) :
        a \in AbandonedCommands, c \in RecoverCommands}

\* what a ResponseDecoder went through before it is abandoned: nothing; a lone
\* sentinel; bytes buffered; armed; inside an armed ReadRange; inside an
\* auto-armed CrcIntFlash
AbandonedResponses ==
    {<<>>, Receives(<<252>>), Receives(<<0, 7>>), <<Arm(2)>>,
     <<Arm(2), Recv(252), Recv(32), Recv(5)>>, Receives(<<252, 35, 1>>)}

\* reset(), then set_payload_len(1); reset(), then the frame of a CrcIntFlash
ResetResponseScripts ==
    {Script("reset_arm", a \o <<Reset>>, <<Arm(1)>>, 0, <<>>) : a \in AbandonedResponses}
    \cup {Script("reset_auto", a \o <<Reset>>, Receives(<<252, 35, 239, 190, 173, 222>>), 35,
                 <<239, 190, 173, 222>>) : a \in AbandonedResponses}

\* a frame that decodes, then the frame of a Ping or of an ErasePage
CommandPairScripts ==
    {Script("pair", Receives(CommandFrame(c)), Receives(f), f[Len(f)], <<>>) :
        c \in {r \in RecoverCommands : r.tag # "SetAttr"} \cup {[tag |-> "Id"]},
        f \in {<<252, 1>>, <<1, 2, 3, 4, 252, 6>>}}

\* a response that decodes (an Info, a CrcRxBuffer, a ReadRange of 3 bytes, a
\* Pong), then the frame of a Pong or of a CrcIntFlash
ResponsePairScripts ==
    {Script("pair", f, Receives(g), g[2], <<>>) :
        g \in {<<252, 17>>, <<252, 35, 239, 190, 173, 222>>},
        f \in {Receives(<<252, 37>> \o Ramp(8)),
               Receives(<<252, 25, 1, 2, 3, 4, 5, 6>>),
               <<Arm(3)>> \o Receives(<<252, 32, 9, 252, 252, 9>>),
               Receives(<<252, 17>>)}}

\* the payload of a command with fixed fields, each byte different and two of
\* them the sentinel, then its marker; for ChangeBaud every kind of mode byte
FieldScripts ==
    {Script("field", Receives(Stuff([i \in 1..ExactSize(op) |-> IF i \in {2, 5} THEN 252 ELSE 16 * i])),
            Receives(<<252, op>>), op, <<>>) :
        op \in {6, 8, 17, 18, 20, 21, 22, 23, 32}}
    \cup {Script("field", Receives(<<m, 0, 194, 1, 0>>), Receives(<<252, 33>>), 33, <<>>) :
            m \in {0, 1, 2, 3, 255}}

CommandScripts ==
    RecoverScripts \cup SetAttrScripts \cup ExactScripts \cup ZeroArgScripts
    \cup FullCommandScripts \cup ResetCommandScripts \cup CommandPairScripts
    \cup FieldScripts

\* bytes fed without any marker to an armed ResponseDecoder, the first the value
\* of an opcode
RawScripts ==
    {Script("raw", <<Arm(0)>>, Receives(<<32>>), 32, <<>>),
     Script("raw", <<Arm(2)>>, Receives(<<37, 1, 2>>), 37, <<1, 2>>),
     Script("raw", <<Arm(4)>>, Receives(<<35, 239, 190, 173, 222>>), 35, <<239, 190, 173, 222>>),
     Script("raw", Receives(<<33>>) \o <<Arm(1)>>, Receives(<<5>>), 33, <<5>>)}

\* a read of zero bytes: set_payload_len(0), then the marker of the range
ZeroReadScripts ==
    {Script("zero", <<Arm(0)>>, Receives(<<252, op>>), op, <<>>) : op \in {32, 33}}

ResponseScripts ==
    TerminalScripts \cup AutoArmScripts \cup RangeScripts \cup FullResponseScripts
    \cup RawScripts \cup ZeroReadScripts \cup LongReadScripts \cup ArmedInfoScripts
    \cup ResetResponseScripts \cup ResponsePairScripts

\* A caller follows one script on a fresh decoder.
InitScript ==
    /\ harness \in {"script_command", "script_response"}
    /\ overflow_checks = TRUE
    /\ command = NoMessage
    /\ response = NoMessage
    /\ script \in (IF harness = "script_command" THEN CommandScripts ELSE ResponseScripts)
    /\ pc = 0
    /\ Fresh

\* the next step of the script is a receive on the CommandDecoder
ScriptCommandReceive ==
    /\ harness = "script_command"
    /\ pc < Len(script.steps)
    /\ script.steps[pc + 1].op = "receive"
    /\ CommandDecoder_receive(script.steps[pc + 1].arg)
    /\ pc' = pc + 1
    /\ UNCHANGED <<harness, script, overflow_checks, ce_vars, re_vars, rd_vars, wire>>

\* the next step of the script is a receive on the ResponseDecoder
ScriptResponseReceive ==
    /\ harness = "script_response"
    /\ pc < Len(script.steps)
    /\ script.steps[pc + 1].op = "receive"
    /\ ResponseDecoder_receive(script.steps[pc + 1].arg)
    /\ pc' = pc + 1
    /\ UNCHANGED <<harness, script, overflow_checks, ce_vars, cd_vars, re_vars, wire>>

\* the next step of the script is a set_payload_len
ScriptResponseArm ==
    /\ harness = "script_response"
    /\ pc < Len(script.steps)
    /\ script.steps[pc + 1].op = "set_payload_len"
    /\ ResponseDecoder_set_payload_len(script.steps[pc + 1].arg)
    /\ pc' = pc + 1
    /\ UNCHANGED <<harness, script, overflow_checks, ce_vars, cd_vars, re_vars, wire>>

\* the next step of the script is a reset of the CommandDecoder
ScriptCommandReset ==
    /\ harness = "script_command"
    /\ pc < Len(script.steps)
    /\ script.steps[pc + 1].op = "reset"
    /\ CommandDecoder_reset
    /\ pc' = pc + 1
    /\ UNCHANGED <<harness, script, overflow_checks, ce_vars, re_vars, rd_vars, wire>>

\* the next step of the script is a reset of the ResponseDecoder
ScriptResponseReset ==
    /\ harness = "script_response"
    /\ pc < Len(script.steps)
    /\ script.steps[pc + 1].op = "reset"
    /\ ResponseDecoder_reset
    /\ pc' = pc + 1
    /\ UNCHANGED <<harness, script, overflow_checks, ce_vars, cd_vars, re_vars, wire>>

NextScript ==
    \/ ScriptCommandReceive
    \/ ScriptCommandReset
    \/ ScriptResponseReceive
    \/ ScriptResponseArm
    \/ ScriptResponseReset

SpecScript == InitScript /\ [][NextScript]_vars

\* a fresh CommandDecoder, and the one it becomes by receiving bytes in order
FreshCommandDecoder == [state |-> "Loading", buffer |-> <<>>, count |-> 0, ret |-> OkNone]

RECURSIVE CommandRun(_, _)
CommandRun(d, bytes) ==
    CASE Len(bytes) = 0 -> d
      [] Len(bytes) = 1 ->
            IF d.state = "Loading"
            THEN CommandDecoder_handle_loading(bytes[1], d.buffer, d.count)
            ELSE CommandDecoder_handle_escape(bytes[1], d.buffer, d.count)
      [] OTHER ->
            LET half == Len(bytes) \div 2
                mid == CommandRun(d, SubSeq(bytes, 1, half))
            IN  IF mid.count <= BUFFER_LEN
                THEN CommandRun(mid, SubSeq(bytes, half + 1, Len(bytes)))
                ELSE mid

----------------------------------------------------------------------------
(* Claims *)

\* C1: every command with valid field values round-trips: fed the bytes of its
\* CommandEncoder in order, a fresh CommandDecoder returns Ok(None) for every
\* byte but the last and Ok(Some(c)) with c the command on the last, and the
\* encoder gets to its None without a panic.
C1_CommandRoundTrip ==
    (harness = "command" /\ ValidCommand(command)) =>
        /\ ce_state # "panicked"
        /\ CommandSent =>
            /\ cd_calls = Len(ce_out)
            /\ cd_yields = 1
            /\ cd_ret.kind = "Some"
            /\ SameMessage(cd_ret.val, command)

\* C2: every response ResponseEncoder::new accepts round-trips: fed the bytes
\* of its ResponseEncoder in order, a fresh ResponseDecoder (armed with the data
\* length for ReadRange / ExReadRange only) returns Ok(None) for every byte but
\* the last and Ok(Some(r)) with r the response on the last.
C2_ResponseRoundTrip ==
    ResponseSent =>
        /\ rd_calls = Len(re_out)
        /\ rd_yields = 1
        /\ rd_ret.kind = "Some"
        /\ SameMessage(rd_ret.val, response)

\* C3: the encoder of an accepted SetAttr returns the index, the 8 key bytes,
\* the value length L, the L value bytes (sentinel bytes doubled), 0xFC, 0x13
\* and only then None.
C3_SetAttrWire ==
    (CommandSent /\ command.tag = "SetAttr") =>
        ce_out = Stuff(<<command.index>> \o command.key \o <<Len(command.value)>>
                       \o command.value) \o <<252, 19>>

\* C4: the encoder of a ChangeBaud returns the mode byte, the four bytes of baud
\* in little-endian order (sentinel bytes doubled), 0xFC, 0x21 and only then
\* None, and its position arithmetic never underflows.
C4_ChangeBaudWire ==
    (harness = "command" /\ command.tag = "ChangeBaud") =>
        /\ ce_state # "panicked"
        /\ CommandSent =>
            ce_out = Stuff(<<IF command.mode = "Set" THEN 1 ELSE 2>> \o LE32(command.baud))
                     \o <<252, 33>>

\* One next() call that returned a byte, seen from the frame it renders:
\* logical is the unescaped frame, framing the positions of its sentinel and
\* opcode; before is count and sent_escape before the call.
StuffedStep(logical, framing, before, ret, count, sent_escape) ==
    LET p == before.count
    IN  /\ before.sent_escape => ret.some
        /\ ret.some =>
            /\ p < Len(logical)
            /\ ret.byte = logical[p + 1]
            /\ IF p \notin framing /\ logical[p + 1] = 252
               THEN IF before.sent_escape
                    THEN count = p + 1 /\ ~sent_escape
                    ELSE count = p /\ sent_escape
               ELSE count = p + 1 /\ ~sent_escape /\ ~before.sent_escape

\* C5: byte-stuffing of both encoders: every byte next() returns is the byte of
\* the frame at the position counter, in field order; a payload byte 0xFC is
\* returned by exactly two consecutive calls, of which only the second advances
\* the counter, every other payload byte by one call that advances it, and the
\* sentinel of the header / trailer by one call, never doubled.
C5_ByteStuffing ==
    /\ harness = "command" =>
        LET fields == CommandFields(command)
        IN  StuffedStep(fields \o <<252, CommandOpcode(command)>>,
                        {Len(fields), Len(fields) + 1},
                        ce_last, ce_ret, ce_count, ce_sent_escape)
    /\ harness = "response" =>
        StuffedStep(<<252, ResponseOpcode(response)>> \o ResponseFields(response),
                    {0, 1}, re_last, re_ret, re_count, re_sent_escape)

\* C5 happens: the second copy of a payload sentinel has just been returned, by
\* a response encoder that has also passed its undoubled header
C5_Witness ==
    /\ harness = "response"
    /\ re_last.sent_escape /\ re_ret = SomeByte(252)
    /\ re_count = re_last.count + 1 /\ re_count > 2

\* the buffer arrays with written prefixes a and b hold the same 520 bytes
SameBuffer(a, b) ==
    \A i \in 0..(IF Len(a) > Len(b) THEN Len(a) ELSE Len(b)) : Slot(a, i) = Slot(b, i)

\* the buffer array with written prefix a is that of b but for byte ch at slot at
StoredOne(a, b, at, ch) ==
    \A i \in 0..(IF Len(a) > Len(b) THEN Len(a) ELSE Len(b)) :
        Slot(a, i) = IF i = at THEN ch ELSE Slot(b, i)

\* The framing rule for one receive call: last holds the byte and the fields
\* before the call; cleared tells whether the call may clear the count instead of
\* advancing it.
FramingStep(last, state, buffer, count, ret, cleared) ==
    /\ (last.state = "Loading" /\ last.ch = 252) =>
        /\ state = "Escape"
        /\ ret = OkNone
        /\ SameBuffer(buffer, last.buffer)
        /\ count = last.count
    /\ (last.state = "Escape" /\ last.ch = 252) =>
        IF last.count < 520
        THEN /\ StoredOne(buffer, last.buffer, last.count, 252)
             /\ IF cleared THEN count = 0 ELSE count = last.count + 1
        ELSE SameBuffer(buffer, last.buffer)
    /\ last.state = "Escape" => state = "Loading"

\* C6 as stated: in both decoders a sentinel received in Loading moves to Escape,
\* returns Ok(None) and leaves buffer and count; a sentinel received in Escape
\* appends one 0xFC, count becoming count + 1 below capacity; and after a byte
\* received in Escape the state is Loading.
C6_FramingAsStated ==
    /\ FramingStep(cd_last, cd_state, cd_buffer, cd_count, cd_ret, FALSE)
    /\ FramingStep(rd_last, rd_state, rd_buffer, rd_count, rd_ret, FALSE)

\* C6 amended: as stated, except that in the ResponseDecoder the doubled
\* sentinel that completes the armed total is stored at slot count and the count
\* is then cleared to 0 instead of becoming count + 1.
C6_Framing ==
    /\ FramingStep(cd_last, cd_state, cd_buffer, cd_count, cd_ret, FALSE)
    /\ FramingStep(rd_last, rd_state, rd_buffer, rd_count, rd_ret,
                   rd_last.needed = Some(rd_last.count + 1))

\* C6 happens: a ResponseDecoder with bytes buffered received a doubled sentinel
\* that completed its armed total
C6_Witness ==
    /\ rd_last.state = "Escape" /\ rd_last.ch = 252
    /\ rd_last.count > 0 /\ rd_last.needed = Some(rd_last.count + 1)
    /\ rd_count = 0 /\ rd_ret.kind = "Some"

\* C7: a ResponseDecoder in state Escape that receives a byte that is neither
\* the sentinel nor a known response opcode returns Err(UnknownCommand).
C7_UnknownResponseOpcode ==
    (rd_last.state = "Escape" /\ rd_last.ch \notin ResponseOpcodes \cup {252}) =>
        rd_ret = Err("UnknownCommand")

\* C8 as stated: after the CommandDecoder processes any marker (a byte other than
\* the sentinel received in Escape) the buffered count is 0, whatever it returns.
C8_CountClearedAsStated ==
    (cd_last.state = "Escape" /\ cd_last.ch # 252) => cd_count = 0

\* C8 amended: after a marker that yields a command or an error the buffered
\* count is 0; after a marker that yields Ok(None), which is a byte that is no
\* command opcode, the count is what it was.
C8_CountCleared ==
    (cd_last.state = "Escape" /\ cd_last.ch # 252) =>
        IF cd_ret.kind \in {"Some", "Err"}
        THEN cd_count = 0
        ELSE cd_last.ch \notin CommandOpcodes /\ cd_count = cd_last.count

\* C8 happens: a marker received with two bytes buffered yielded an error and
\* the count was cleared
C8_Witness ==
    /\ cd_last.state = "Escape" /\ cd_last.ch = 6 /\ cd_last.count = 2
    /\ cd_ret = Err("BadArguments") /\ cd_count = 0

\* C9: a CommandDecoder in state Escape that receives a byte that is neither the
\* sentinel nor one of the twenty command opcodes returns Ok(None).
C9_UnknownCommandOpcode ==
    (cd_last.state = "Escape" /\ cd_last.ch \notin CommandOpcodes \cup {252}) =>
        cd_ret = OkNone

\* C9 happens: a byte that is no opcode was received in Escape with bytes buffered
C9_Witness ==
    /\ cd_last.state = "Escape" /\ cd_last.ch = 153 /\ cd_last.count > 0
    /\ cd_ret = OkNone

C11_SetPayloadLen ==
    rd_armlast # NoArm =>
        /\ rd_count = rd_armlast.count
        /\ rd_buffer = rd_armlast.buffer
        /\ rd_state = rd_armlast.state
        /\ IF rd_armlast.needed = None
           THEN rd_armret = "Ok" /\ rd_needed = Some(rd_armlast.length + 1)
           ELSE rd_armret = "SetLength" /\ rd_needed = rd_armlast.needed

\* C11 happens: set_payload_len(0) was called, with a byte buffered, on a decoder
\* that the marker of CrcIntFlash had armed with 4 + 1
C11_Witness ==
    /\ rd_armlast # NoArm /\ rd_armlast.length = 0
    /\ rd_armlast.needed = Some(5) /\ rd_armlast.count > 0
    /\ rd_armret = "SetLength" /\ rd_needed = Some(5)

\* C12: once a set_payload_len has returned Ok, and as long as no receive has
\* returned Ok(Some(_)), the next set_payload_len returns Err(SetLength).
C12_SecondArmFails ==
    (rd_armlast # NoArm /\ rd_armlast.pending) => rd_armret = "SetLength"

\* C13: a ResponseDecoder in state Escape that receives the opcode of a
\* self-terminating response returns Ok(Some(that response)) on that byte, for
\* any buffered count and any arming; afterwards count is 0 and no length is
\* armed, so that a set_payload_len that follows returns Ok.
C13_SelfTerminating ==
    /\ (rd_last.state = "Escape" /\ rd_last.ch \in SelfTerminating) =>
        /\ rd_ret.kind = "Some"
        /\ ResponseOpcode(rd_ret.val) = rd_last.ch
        /\ rd_ret.val = [tag |-> rd_ret.val.tag]
        /\ rd_count = 0
        /\ rd_needed = None
    /\ (script.kind = "terminal" /\ pc = Len(script.steps)) => rd_armret = "Ok"

\* C13 happens: ChangeBaudFail arrived inside an armed ReadRange frame and the
\* set_payload_len after it was made
C13_Witness ==
    /\ script.kind = "terminal" /\ script.opcode = 38 /\ script.mark = 4
    /\ pc = Len(script.steps)
    /\ rd_armlast.needed = None /\ rd_armlast.count = 0 /\ rd_needed = Some(2)

C15_ArmedReadRange ==
    (script.kind = "range" /\ pc >= 1) =>
        /\ rd_armret = "Ok"
        /\ (pc > 1 /\ pc < Len(script.steps)) => rd_ret = OkNone
        /\ pc = Len(script.steps) =>
            rd_ret = OkSome([tag |-> IF script.opcode = 32 THEN "ReadRange" ELSE "ExReadRange",
                             data |-> script.payload])

\* C15 happens: an ExReadRange of 519 bytes, the first and the last the sentinel,
\* was decoded
C15_Witness ==
    /\ script.kind = "range" /\ script.opcode = 33 /\ script.payload = Edged(519)
    /\ pc = Len(script.steps) /\ pc = 524
    /\ rd_ret.kind = "Some" /\ Len(rd_ret.val.data) = 519

\* C16: after ResponseDecoder::receive returns an error, count is 0, no length is
\* armed and the state is Loading.
C16_ResponseErrorResets ==
    (rd_last.state # "-" /\ rd_ret.kind = "Err") =>
        /\ rd_count = 0
        /\ rd_needed = None
        /\ rd_state = "Loading"

\* C17: after CommandDecoder::receive returns an error, count is 0 and the state
\* is Loading, and every byte of a command frame fed next gets the result it
\* gets from a fresh decoder.
C17_CommandErrorResets ==
    /\ (cd_last.state # "-" /\ cd_ret.kind = "Err") =>
        /\ cd_count = 0
        /\ cd_state = "Loading"
    /\ (script.kind = "recover" /\ pc > script.mark) =>
        LET fresh == CommandRun(FreshCommandDecoder,
                                SubSeq(script.payload, 1, pc - script.mark))
        IN  /\ cd_ret = fresh.ret
            /\ cd_count = fresh.count
            /\ cd_state = fresh.state

\* C17 happens: a frame ended in Err(BadArguments) with five bytes buffered, and
\* the WriteExPage frame fed after it was decoded
C17_Witness ==
    /\ script.kind = "recover" /\ script.mark = 9 /\ script.opcode = 9
    /\ pc = Len(script.steps)
    /\ cd_ret.kind = "Some" /\ cd_ret.val.tag = "WriteExPage"
    /\ cd_ret.val.data = Edged(EXT_PAGE_SIZE)

\* C18: every SetAttr the CommandDecoder returns has index <= 16, a key of 8
\* bytes and a value of at most 55 bytes, and a SetAttr frame whose index is
\* above 16 or whose declared length is above 55 returns Err(BadArguments).
C18_SetAttrValid ==
    /\ (cd_ret.kind = "Some" /\ cd_ret.val.tag = "SetAttr") =>
        /\ cd_ret.val.index <= 16
        /\ Len(cd_ret.val.key) = 8
        /\ Len(cd_ret.val.value) <= 55
    /\ (/\ script.kind = "setattr" /\ pc = Len(script.steps)
        /\ (script.payload[1] > 16 \/ script.payload[10] > 55)) =>
        cd_ret = Err("BadArguments")

\* C19: every GetAttr the ResponseDecoder returns has a key of 8 bytes and a
\* value of at most 55 bytes, all of them bytes of the value region received in
\* that frame, and a declared value length above 55 returns Err(BadArguments).
C19_GetAttrValid ==
    /\ (rd_ret.kind = "Some" /\ rd_ret.val.tag = "GetAttr") =>
        /\ Len(rd_ret.val.key) = 8
        /\ Len(rd_ret.val.value) <= 55
    /\ (script.kind = "autoarm" /\ script.opcode = 34 /\ pc = Len(script.steps)) =>
        /\ script.payload[9] > 55 => rd_ret = Err("BadArguments")
        /\ rd_ret.kind = "Some" =>
            /\ Len(rd_ret.val.value) <= 55
            /\ rd_ret.val.value = SubSeq(script.payload, 10, 9 + Len(rd_ret.val.value))

C21_ResponseEncoderConstruction ==
    (harness = "response" /\ re_state # "none") =>
        /\ re_state = "rejected" <=>
            \/ /\ response.tag = "GetAttr"
               /\ (Len(response.key) # 8 \/ Len(response.value) > 55)
            \/ response.tag = "Info" /\ Len(response.info) > 192
        /\ re_state = "rejected" => re_out = <<>> /\ re_nones = 0

\* C21 happens: an Info of 192 bytes got its encoder
C21_Witness ==
    /\ harness = "response" /\ re_state = "ready"
    /\ response.tag = "Info" /\ Len(response.info) = 192

C23_ExactLength ==
    (/\ cd_last.state = "Escape" /\ cd_last.ch \in ExactOpcodes
     /\ cd_last.count # ExactSize(cd_last.ch)) =>
        cd_ret = Err("BadArguments") /\ cd_count = 0

\* C23 happens: the WritePage opcode arrived behind 517 bytes
C23_Witness ==
    /\ cd_last.state = "Escape" /\ cd_last.ch = 7 /\ cd_last.count = 517
    /\ cd_ret.kind = "Err" /\ cd_count = 0

\* C24: the opcode of Ping, Info, Id, Reset, CrcRxBuffer, ExtFlashInit or
\* ClockOut, received in state Escape, returns Ok(Some(that command)) whatever
\* the buffered count from 0 to 520, and count is 0 afterwards.
C24_ZeroArgument ==
    (cd_last.state = "Escape" /\ cd_last.ch \in ZeroArgOpcodes) =>
        /\ cd_ret.kind = "Some"
        /\ cd_ret.val = [tag |-> cd_ret.val.tag]
        /\ CommandOpcode(cd_ret.val) = cd_last.ch
        /\ cd_count = 0

\* C24 happens: ClockOut arrived behind a full buffer
C24_Witness ==
    /\ cd_last.state = "Escape" /\ cd_last.ch = 25 /\ cd_last.count = 520
    /\ script.kind = "zeroarg" /\ script.mark = 521
    /\ cd_ret.kind = "Some" /\ cd_count = 0

\* the call stores its byte: a byte other than the sentinel in state Loading, or
\* the second sentinel in state Escape
Storing(last) ==
    \/ last.state = "Loading" /\ last.ch # 252
    \/ last.state = "Escape" /\ last.ch = 252

\* C25: in both decoders count stays within 0..520; a byte to be stored when
\* count is 520 is dropped, and buffer, count and armed length stay as they
\* were; and no receive call touches a buffer index outside 0..519.
C25_BufferBound ==
    /\ cd_count \in 0..520 /\ Len(cd_buffer) <= 520
    /\ rd_count \in 0..520 /\ Len(rd_buffer) <= 520
    /\ (Storing(cd_last) /\ cd_last.count = 520) =>
        cd_buffer = cd_last.buffer /\ cd_count = 520
    /\ (Storing(rd_last) /\ rd_last.count = 520) =>
        rd_buffer = rd_last.buffer /\ rd_count = 520 /\ rd_needed = rd_last.needed
    /\ cd_last.state # "-" =>
        CommandDecoder_reach(cd_last.ch, cd_last.state, cd_last.buffer, cd_last.count) <= 520
    /\ rd_last.state # "-" =>
        ResponseDecoder_reach(rd_last.ch, rd_last.state, rd_last.buffer, rd_last.count,
                              rd_last.needed) <= 520

\* C26: once next has returned None, on either encoder, every later next returns
\* None and leaves count and sent_escape as they were.
C26_Exhaustion ==
    /\ ce_nones >= 1 => ce_ret = NoByte /\ ce_state = "ready"
    /\ ce_nones >= 2 => ce_count = ce_last.count /\ ce_sent_escape = ce_last.sent_escape
    /\ re_nones >= 1 => re_ret = NoByte
    /\ re_nones >= 2 => re_count = re_last.count /\ re_sent_escape = re_last.sent_escape

\* C26 happens: the encoder of a WriteFlashUserPages returned None twice
C26_Witness ==
    /\ harness = "command" /\ command.tag = "WriteFlashUserPages"
    /\ ce_nones = 2 /\ ce_count = 10 /\ ce_ret = NoByte

\* C27: the encoder of an accepted GetAttr returns 0xFC, 0x22, the 8 key bytes,
\* the value length L, the L value bytes and 55 - L bytes 0xFF, sentinel bytes of
\* the payload doubled: 66 bytes before stuffing, 55 of them the value region.
C27_GetAttrPadding ==
    (ResponseSent /\ response.tag = "GetAttr") =>
        LET L == Len(response.value)
            region == response.value \o [i \in 1..(55 - L) |-> 255]
        IN  /\ Len(region) = 55
            /\ Len(<<252, 34>> \o response.key \o <<L>> \o region) = 66
            /\ re_out = <<252, 34>> \o Stuff(response.key \o <<L>> \o region)

\* C27 happens: a GetAttr with a value of 4 bytes, two of them the sentinel, was
\* encoded to its end
C27_Witness ==
    /\ ResponseSent /\ response.tag = "GetAttr"
    /\ response.value = Edged(4) /\ response.key = Ramp(8)
    /\ Len(re_out) = 68

\* C28: CommandDecoder::reset sets count to 0 and leaves the state and the
\* buffer contents as they were.
C28_Reset ==
    [][ResetCommand => (cd_count' = 0 /\ cd_state' = cd_state /\ cd_buffer' = cd_buffer)]_vars

\* C28 happens: reset was called in state Escape with bytes buffered
C28_Witness ==
    /\ harness = "feed_command" /\ cd_last = NoCall /\ cd_calls > 0
    /\ cd_state = "Escape" /\ cd_count = 0 /\ Len(cd_buffer) = 2

\* the responses that carry a payload
PayloadKinds ==
    {"CrcRxBuffer", "ReadRange", "ExReadRange", "GetAttr", "CrcIntFlash", "CrcExtFlash", "Info"}

\* C29: a response with a payload that ResponseDecoder::receive returns has the
\* kind of the opcode of a marker that was fed before (the sentinel, then the
\* opcode), and that opcode is the byte in buffer slot 0.
C29_MarkerKind ==
    (/\ harness = "script_response" /\ rd_last.state # "-"
     /\ rd_ret.kind = "Some" /\ rd_ret.val.tag \in PayloadKinds) =>
        /\ rd_buffer[1] = ResponseOpcode(rd_ret.val)
        /\ \E i \in 1..(pc - 1) :
            /\ script.steps[i] = Recv(252)
            /\ script.steps[i + 1] = Recv(ResponseOpcode(rd_ret.val))

\* C30: on a fresh ResponseDecoder on which set_payload_len(0) returned Ok, the
\* sentinel and then the opcode of ReadRange (ExReadRange) make the second
\* receive return Ok(Some(ReadRange{data: empty})) (ExReadRange).
C30_ZeroLengthRead ==
    (/\ harness = "script_response" /\ script.kind = "zero" /\ pc = 3
     /\ rd_armret = "Ok" /\ rd_calls = 2) =>
        rd_ret = OkSome([tag |-> IF script.opcode = 32 THEN "ReadRange" ELSE "ExReadRange",
                         data |-> <<>>])

\* C31: for every length n a ReadRange or ExReadRange can ask for, a fresh
\* ResponseDecoder on which set_payload_len(n) was called and which then gets the
\* marker and the n data bytes returns the response with those n bytes.
C31_EveryReadLength ==
    (/\ harness = "script_response" /\ script.kind \in {"range", "zero", "long"}
     /\ pc = Len(script.steps)) =>
        /\ rd_armret = "Ok"
        /\ rd_ret = OkSome([tag |-> IF script.opcode = 32 THEN "ReadRange" ELSE "ExReadRange",
                            data |-> script.payload])

\* C32: on a fresh ResponseDecoder on which set_payload_len(n) was called, n # 8,
\* the marker of Info and n payload bytes return no error, and the last byte
\* returns Ok(Some(Info{info})) with the n bytes.
C32_ArmedInfo ==
    (harness = "script_response" /\ script.kind = "armedinfo" /\ pc >= 1) =>
        /\ rd_armret = "Ok"
        /\ rd_ret.kind # "Err"
        /\ pc = Len(script.steps) => rd_ret = OkSome([tag |-> "Info", info |-> script.payload])

\* C33: the index byte, the 8 key bytes, the byte L <= 55 and exactly L value
\* bytes, stuffed, then 0xFC, 0x13, fed to a fresh CommandDecoder, return
\* Ok(Some(SetAttr{index, key, value})) on the last byte.
C33_DocumentedSetAttr ==
    (/\ harness = "script_command" /\ script.kind = "setattr"
     /\ script.payload[10] <= 55 /\ Len(script.payload) = 10 + script.payload[10]
     /\ pc = Len(script.steps)) =>
        cd_ret = OkSome([tag |-> "SetAttr", index |-> script.payload[1],
                         key |-> SubSeq(script.payload, 2, 9),
                         value |-> SubSeq(script.payload, 11, 10 + script.payload[10])])

\* C34: after reset() at any point of a partly fed message, the frame of a
\* command returns on its last byte what it returns on a fresh CommandDecoder.
C34_ResetThenFrame ==
    (harness = "script_command" /\ script.kind = "reset" /\ pc = Len(script.steps)) =>
        cd_ret = CommandRun(FreshCommandDecoder, script.payload).ret

\* C35: after ResponseDecoder::reset, count is 0 and no length is armed, a
\* set_payload_len that follows returns Ok, and the frame of a response that
\* arms itself decodes as on a fresh decoder.
C35_ResponseReset ==
    /\ (/\ harness = "script_response" /\ pc >= 1 /\ script.steps[pc] = Reset) =>
        rd_count = 0 /\ rd_needed = None
    /\ (script.kind = "reset_arm" /\ pc = Len(script.steps)) => rd_armret = "Ok"
    /\ (script.kind = "reset_auto" /\ pc = Len(script.steps)) =>
        rd_ret = OkSome([tag |-> "CrcIntFlash", crc |-> U32(57005, 48879)])

\* C36: after a receive that returns Ok(Some(_)), on either decoder, count is 0,
\* the state is Loading and the ResponseDecoder has no length armed; a frame fed
\* right behind a decoded one decodes to its own message.
C36_CleanAfterDecode ==
    /\ (cd_last.state # "-" /\ cd_ret.kind = "Some") =>
        cd_count = 0 /\ cd_state = "Loading"
    /\ (rd_last.state # "-" /\ rd_ret.kind = "Some") =>
        rd_count = 0 /\ rd_state = "Loading" /\ rd_needed = None
    /\ (script.kind = "pair" /\ pc = script.mark) =>
        IF harness = "script_command" THEN cd_ret.kind = "Some" ELSE rd_ret.kind = "Some"
    /\ (script.kind = "pair" /\ pc = Len(script.steps)) =>
        CASE harness = "script_command" /\ script.opcode = 1 ->
                cd_ret = OkSome([tag |-> "Ping"])
          [] harness = "script_command" /\ script.opcode = 6 ->
                cd_ret = OkSome([tag |-> "ErasePage", address |-> U32(1027, 513)])
          [] harness = "script_response" /\ script.opcode = 17 ->
                rd_ret = OkSome([tag |-> "Pong"])
          [] harness = "script_response" /\ script.opcode = 35 ->
                rd_ret = OkSome([tag |-> "CrcIntFlash", crc |-> U32(57005, 48879)])

\* C36 happens: a CrcIntFlash was decoded right behind an Info
C36_Witness ==
    /\ harness = "script_response" /\ script.kind = "pair" /\ script.mark = 10
    /\ script.steps[2] = Recv(37) /\ script.opcode = 35
    /\ pc = Len(script.steps)
    /\ rd_ret.kind = "Some" /\ rd_ret.val.tag = "CrcIntFlash"
    /\ rd_count = 0 /\ rd_needed = None

\* C37: the opcode of a command with fixed fields, received with exactly its
\* size buffered, returns the command whose fields are the little-endian values
\* of the buffer bytes in wire order (address, then length; data from slot 4; the
\* index in slot 0); ChangeBaud has mode Set for a first byte 0x01, Verify for
\* 0x02 and returns Err(BadArguments) for any other first byte.
C37_FieldReassembly ==
    (/\ harness = "script_command" /\ cd_last.state = "Escape"
     /\ cd_last.ch \in ExactOpcodes /\ cd_last.count = ExactSize(cd_last.ch)) =>
        LET bytes == [i \in 1..cd_last.count |-> Slot(cd_last.buffer, i - 1)]
        IN  IF cd_last.ch = 33 /\ bytes[1] \notin {1, 2}
            THEN cd_ret = Err("BadArguments")
            ELSE /\ cd_ret.kind = "Some"
                 /\ CommandOpcode(cd_ret.val) = cd_last.ch
                 /\ CommandFields(cd_ret.val) = bytes
                 /\ cd_last.ch = 33 =>
                        cd_ret.val.mode = (IF bytes[1] = 1 THEN "Set" ELSE "Verify")

\* C37 happens: a ChangeBaud with mode byte 0x01 and the bytes of 115200 was
\* decoded
C37_Witness ==
    /\ harness = "script_command" /\ script.kind = "field" /\ pc = Len(script.steps)
    /\ cd_last.ch = 33 /\ cd_last.count = 5
    /\ cd_ret = OkSome([tag |-> "ChangeBaud", mode |-> "Set", baud |-> U32(1, 49664)])

\* C38: the encoder of every accepted command or response returns None after
\* finitely many next calls, at most twice the length of the unescaped frame
\* plus one, and no call panics or underflows the position arithmetic.
C38_EncoderTermination ==
    /\ (harness = "command" /\ ce_state \notin {"none", "rejected"}) =>
        /\ ce_state # "panicked"
        /\ Len(ce_out) <= 2 * (Len(CommandFields(command)) + 2)
    /\ (harness = "response" /\ re_state \notin {"none", "rejected"}) =>
        /\ re_state # "panicked"
        /\ Len(re_out) <= 2 * (Len(ResponseFields(response)) + 2)

\* C39: CommandEncoder::new returns Err(BadArguments) for every SetAttr whose
\* index is 16 or more.
C39_SetAttrIndex ==
    (/\ harness = "command" /\ ce_state # "none"
     /\ command.tag = "SetAttr" /\ command.index >= 16) =>
        ce_state = "rejected"

====
